---- MODULE Spec2Model ----
(***************************************************************************)
(* A model of the minestodon client-facing protocol engine: the            *)
(* per-connection worker (User::run), the byte pipeline of                 *)
(* Connection::tick, the per-state packet dispatch and the login hand-off  *)
(* of Player::finish_joining.                                              *)
(*                                                                         *)
(* One action, UserRun, is one iteration of the worker loop: a blocking    *)
(* read, the whole tick over the bytes read, the promotion to a Player     *)
(* when the tick asks for it, and the error kick when the tick fails.      *)
(* Bytes are the integers 0..255; packets are decoded field by field as    *)
(* the readers of packet_io.rs decode them.                                *)
(*                                                                         *)
(* Four further machines share the module: codec runs (CodecSpec), which   *)
(* write a value with the writers and read the bytes back, or serve a      *)
(* whole byte stream under two splits into reads; the threads that call    *)
(* Server::next_entity_id (ServerSpec); the calls on a Registry            *)
(* (RegistrySpec); and several Users served at once (PairSpec).            *)
(***************************************************************************)
EXTENDS Integers, Sequences, FiniteSets, TLC

VARIABLES
    state,              \* Connection.state
    compressed,         \* Connection.compressed
    definitely_modern,  \* Connection.definitely_modern
    packet,             \* Connection.packet : Option<PartialPacket>
    uuid,               \* Player.uuid (0 until a player is created)
    connection,         \* User.connection : ConnectionOrPlayer
    next_entity_id,     \* ServerInner.next_entity_id
    worker,             \* the worker thread: running, closed or panicked
    stream,             \* ghost: everything written to the TcpStream, in order
    handled,            \* ghost: every packet given to decode_and_handle_packet
    transitions,        \* ghost: every assignment to Connection.state
    last,               \* ghost: what the last iteration of User::run saw
    received,           \* ghost: the bytes each read returned, in order
    writes_left,        \* environment: writes that succeed before the peer resets
    peer_closed,        \* environment: the peer has closed its end of the socket
    ticks,              \* number of reads performed so far
    step,               \* codec runs: idle, input, wire or output
    input,              \* codec runs: the value or packet under test
    wire,               \* codec runs: the bytes written for it, or delivered
    output,             \* codec runs: what reading the bytes back gave
    lock,               \* the RwLock of ServerInner.next_entity_id
    threads,            \* the threads calling Server::next_entity_id
    overflow_checks,    \* the build: arithmetic overflow panics or wraps
    entity_ids,         \* ghost: the first value of the counter, the ids returned
    entries,            \* Registry.entries : RwLock<Option<HashMap<Identifier, T>>>
    registry,           \* Registry.init_fn; ghost: its runs, the keys registered
    called,             \* ghost: the last call on the registry and its outcome
    users               \* the Users served at once, each with its Connection

vars == <<state, compressed, definitely_modern, packet, uuid, connection,
          next_entity_id, worker, stream, handled, transitions, last,
          received, writes_left, peer_closed, ticks, step, input, wire, output,
          lock, threads, overflow_checks, entity_ids, entries, registry, called,
          users>>

\* The variables of the connection and its worker.
conn_vars == <<state, compressed, definitely_modern, packet, uuid, connection,
               next_entity_id, worker, stream, handled, transitions, last,
               received, writes_left, peer_closed, ticks>>

\* The variables of a codec run.
codec_vars == <<step, input, wire, output>>

\* The variables of the callers of Server::next_entity_id.
server_vars == <<lock, threads, overflow_checks, entity_ids>>

\* The variables of a registry.
registry_vars == <<entries, registry, called>>

(***************************************************************************)
(* Bounds of the model.                                                    *)
(***************************************************************************)
MaxTicks == 3
MaxWrites == 4
MaxThreads == 2
MaxCalls == 2

(***************************************************************************)
(* Program constants.                                                      *)
(***************************************************************************)
COMPRESSION_THRESHOLD == 256
MAX_VAR_LEN == 5
MAX_VAR_LEN_I64 == 10
LEGACY_PING == 254
ZLIB_HEADER == 120

Byte == 0..255
NoLimit == 0 - 1

States == {"Handshake", "Status", "Login", "Play"}

Range(s) == {s[i] : i \in 1..Len(s)}

\* Then(x, F) is F(x): a value computed once and used by the steps after it.
Then(x, F(_)) == F(x)

Take(s, n) == SubSeq(s, 1, n)
Drop(s, n) == SubSeq(s, n + 1, Len(s))

(***************************************************************************)
(* packet_io.rs: the VarInt decoder.  An i32 is kept as a signed integer;  *)
(* the fifth group is shifted left by 28 in 32 bits, so only its low four  *)
(* bits survive and bit 3 of them is the sign.                             *)
(***************************************************************************)
RECURSIVE LowGroups(_, _)
LowGroups(bytes, n) ==
    IF n = 0 THEN 0
    ELSE (bytes[n] % 128) * (128 ^ (n - 1)) + LowGroups(bytes, n - 1)

\* Variant: the fifth group is dropped.
VarIntValue_four_groups(bytes) ==
    LowGroups(bytes, IF Len(bytes) < MAX_VAR_LEN THEN Len(bytes) ELSE 4)

VarIntValue(bytes) ==
    IF Len(bytes) < MAX_VAR_LEN THEN LowGroups(bytes, Len(bytes))
    ELSE LET h == bytes[MAX_VAR_LEN] % 16
             top == IF h >= 8 THEN h - 16 ELSE h
         IN  top * (128 ^ 4) + LowGroups(bytes, 4)

\* Variant: the length is checked before the byte is pushed, so that the
\* error comes one byte later.
PartialVarInt_next_late(bytes, byte) ==
    Then(Append(bytes, byte), LAMBDA pushed :
        IF (byte \div 128) # 0
        THEN IF Len(bytes) = MAX_VAR_LEN
             THEN [tag |-> "Err"]
             ELSE [tag |-> "Partial", bytes |-> pushed]
        ELSE [tag |-> "Full", value |-> VarIntValue(pushed)])

PartialVarInt_next(bytes, byte) ==
    Then(Append(bytes, byte), LAMBDA pushed :
        IF (byte \div 128) # 0
        THEN IF Len(pushed) = MAX_VAR_LEN
             THEN [tag |-> "Err"]
             ELSE [tag |-> "Partial", bytes |-> pushed]
        ELSE [tag |-> "Full", value |-> VarIntValue(pushed)])

(***************************************************************************)
(* packet_io.rs: the readers.  A reader result is [ok, val, rest]; a read  *)
(* past the end of the buffer is the read_u8 error.                        *)
(***************************************************************************)
Fail == [ok |-> FALSE, val |-> 0, rest |-> <<>>]
Ok(v, rest) == [ok |-> TRUE, val |-> v, rest |-> rest]

RECURSIVE ReadVarLoop(_, _)
ReadVarLoop(partial, buf) ==
    IF buf = <<>> THEN Fail
    ELSE Then(PartialVarInt_next(partial, Head(buf)), LAMBDA n :
            CASE n.tag = "Err" -> Fail
              [] n.tag = "Full" -> Ok(n.value, Tail(buf))
              [] OTHER -> ReadVarLoop(n.bytes, Tail(buf)))

read_var(buf) == ReadVarLoop(<<>>, buf)

(***************************************************************************)
(* packet_io.rs: the VarInt encoder for i32.  unsigned_shr is the shift of *)
(* the value taken as a u32; var & 0x7f is the value modulo 128.           *)
(***************************************************************************)
unsigned_shr(self, rhs) ==
    IF self >= 0 THEN self \div (2 ^ rhs)
    ELSE (self \div (2 ^ rhs)) + (2 ^ (32 - rhs))

\* The groups of the value, most significant group first.
RECURSIVE GroupsMsbFirst(_)
GroupsMsbFirst(var) ==
    IF unsigned_shr(var, 7) = 0 THEN <<var % 128>>
    ELSE Append(GroupsMsbFirst(unsigned_shr(var, 7)), var % 128)

\* Variant: the groups are written most significant first.
write_var_msb_first(var) ==
    Then(GroupsMsbFirst(var), LAMBDA g :
        [i \in 1..Len(g) |-> IF i < Len(g) THEN g[i] + 128 ELSE g[i]])

RECURSIVE WriteVarLoop(_)
WriteVarLoop(var) ==
    IF unsigned_shr(var, 7) = 0 THEN <<var % 128>>
    ELSE <<(var % 128) + 128>> \o WriteVarLoop(unsigned_shr(var, 7))

write_var(var) == WriteVarLoop(var)

(***************************************************************************)
(* packet_io.rs: the VarInt codec for i64.  An i64 is its two's-complement *)
(* bit pattern, a sequence of 64 bits with the least significant first.    *)
(***************************************************************************)
Zero_i64 == [k \in 1..64 |-> 0]

unsigned_shr_i64(self, rhs) ==
    [k \in 1..64 |-> IF k + rhs <= 64 THEN self[k + rhs] ELSE 0]

\* (var & 0x7f) as a u8
LowSeven_i64(var) ==
    var[1] + 2 * var[2] + 4 * var[3] + 8 * var[4] + 16 * var[5]
        + 32 * var[6] + 64 * var[7]

RECURSIVE WriteVarLoop_i64(_)
WriteVarLoop_i64(var) ==
    IF unsigned_shr_i64(var, 7) = Zero_i64 THEN <<LowSeven_i64(var)>>
    ELSE <<LowSeven_i64(var) + 128>> \o WriteVarLoop_i64(unsigned_shr_i64(var, 7))

write_var_i64(var) == WriteVarLoop_i64(var)

\* bit b (from 0) of a byte
BitOf(byte, b) == (byte \div (2 ^ b)) % 2

\* The OR of (byte & 0x7f) << (group * 7) over the groups, in 64 bits.
VarIntValue_i64(bytes) ==
    [k \in 1..64 |->
        IF ((k - 1) \div 7) + 1 <= Len(bytes)
        THEN BitOf(bytes[((k - 1) \div 7) + 1], (k - 1) % 7)
        ELSE 0]

PartialVarInt_next_i64(bytes, byte) ==
    Then(Append(bytes, byte), LAMBDA pushed :
        IF (byte \div 128) # 0
        THEN IF Len(pushed) = MAX_VAR_LEN_I64
             THEN [tag |-> "Err"]
             ELSE [tag |-> "Partial", bytes |-> pushed]
        ELSE [tag |-> "Full", value |-> VarIntValue_i64(pushed)])

RECURSIVE ReadVarLoop_i64(_, _)
ReadVarLoop_i64(partial, buf) ==
    IF buf = <<>> THEN Fail
    ELSE Then(PartialVarInt_next_i64(partial, Head(buf)), LAMBDA n :
            CASE n.tag = "Err" -> Fail
              [] n.tag = "Full" -> Ok(n.value, Tail(buf))
              [] OTHER -> ReadVarLoop_i64(n.bytes, Tail(buf)))

read_var_i64(buf) == ReadVarLoop_i64(<<>>, buf)

\* The loop of read_var, keeping what next() answered to each byte: the tags
\* of the answers, in order.  The loop ends at the first answer that is not
\* Partial, and at the end of the buffer.
RECURSIVE ReadVarTags(_, _, _)
ReadVarTags(wide, partial, buf) ==
    IF buf = <<>> THEN <<>>
    ELSE Then(IF wide THEN PartialVarInt_next_i64(partial, Head(buf))
                      ELSE PartialVarInt_next(partial, Head(buf)), LAMBDA n :
            IF n.tag = "Partial"
            THEN <<n.tag>> \o ReadVarTags(wide, n.bytes, Tail(buf))
            ELSE <<n.tag>>)

read_bool(buf) ==
    IF buf = <<>> THEN Fail ELSE Ok(Head(buf) # 0, Tail(buf))

read_bytes(buf, n) ==
    IF Len(buf) < n THEN Fail ELSE Ok(Take(buf, n), Drop(buf, n))

read_u16(buf) ==
    Then(read_bytes(buf, 2), LAMBDA r :
        IF ~r.ok THEN Fail ELSE Ok(r.val[1] * 256 + r.val[2], r.rest))

\* String::from_utf8: the well-formed byte sequences of UTF-8.
Cont(b) == b \in 128..191

\* The number of bytes of the character that starts with byte h; 0 when no
\* character starts with it.
Utf8Len(h) ==
    CASE h < 128 -> 1
      [] h \in 194..223 -> 2
      [] h \in 224..239 -> 3
      [] h \in 240..244 -> 4
      [] OTHER -> 0

\* One well-formed character starts at b[i] and the next byte starts another.
Utf8At(b, i) ==
    LET h == b[i]
        k == Utf8Len(h)
    IN  /\ k > 0
        /\ i + k - 1 <= Len(b)
        /\ \A j \in 1..(k - 1) : Cont(b[i + j])
        /\ (h = 224 => b[i + 1] >= 160)
        /\ (h = 237 => b[i + 1] <= 159)
        /\ (h = 240 => b[i + 1] >= 144)
        /\ (h = 244 => b[i + 1] <= 143)
        /\ (i + k <= Len(b) => ~Cont(b[i + k]))

IsUtf8(b) ==
    /\ b # <<>> => ~Cont(b[1])
    /\ \A i \in 1..Len(b) : ~Cont(b[i]) => Utf8At(b, i)

\* Variant: a negative length is read as an empty string.
read_string_lenient(buf) ==
    Then(read_var(buf), LAMBDA len :
        IF ~len.ok THEN Fail
        ELSE IF len.val < 0 THEN Ok(<<>>, len.rest)
        ELSE Then(read_bytes(len.rest, len.val), LAMBDA bytes :
                IF ~bytes.ok \/ ~IsUtf8(bytes.val) THEN Fail
                ELSE Ok(bytes.val, bytes.rest)))

read_string(buf) ==
    Then(read_var(buf), LAMBDA len :
        IF ~len.ok \/ len.val < 0 THEN Fail
        ELSE Then(read_bytes(len.rest, len.val), LAMBDA bytes :
                IF ~bytes.ok \/ ~IsUtf8(bytes.val) THEN Fail
                ELSE Ok(bytes.val, bytes.rest)))

read_uuid(buf) == read_bytes(buf, 16)

\* write_str: a str is its UTF-8 bytes; str.len() is their number.
write_str(str) == write_var(Len(str)) \o str

read_i64(buf) == read_bytes(buf, 8)

(***************************************************************************)
(* net.rs: PartialPacket.  None is the empty Option of Connection.packet.  *)
(***************************************************************************)
None == [tag |-> "None"]
PartialPacket_new == [tag |-> "AwaitingLen", bytes |-> <<>>]

\* Variant: the length is cast to usize without a check.
PartialPacket_next_unchecked(self, byte) ==
    IF self.tag = "AwaitingLen"
    THEN Then(PartialVarInt_next(self.bytes, byte), LAMBDA n :
            CASE n.tag = "Err" -> [tag |-> "Err"]
              [] n.tag = "Full" ->
                   [tag |-> "AwaitingBody", len |-> n.value, body |-> <<>>]
              [] OTHER -> [tag |-> "AwaitingLen", bytes |-> n.bytes])
    ELSE Then(Append(self.body, byte), LAMBDA body :
            IF Len(body) = self.len
            THEN [tag |-> "Full", body |-> body]
            ELSE [tag |-> "AwaitingBody", len |-> self.len, body |-> body])

PartialPacket_next(self, byte) ==
    IF self.tag = "AwaitingLen"
    THEN Then(PartialVarInt_next(self.bytes, byte), LAMBDA n :
            CASE n.tag = "Err" -> [tag |-> "Err"]
              [] n.tag = "Full" ->
                   IF n.value < 0 THEN [tag |-> "Err"]
                   ELSE [tag |-> "AwaitingBody", len |-> n.value, body |-> <<>>]
              [] OTHER -> [tag |-> "AwaitingLen", bytes |-> n.bytes])
    ELSE Then(Append(self.body, byte), LAMBDA body :
            IF Len(body) = self.len
            THEN [tag |-> "Full", body |-> body]
            ELSE [tag |-> "AwaitingBody", len |-> self.len, body |-> body])

(***************************************************************************)
(* The zlib stream read by ZlibDecoder, reduced to a stored stream: the    *)
(* header byte, the payload, one trailing checksum byte.  read_exact(len)  *)
(* fails when the header is wrong or the stream ends before len bytes      *)
(* have been produced.                                                     *)
(***************************************************************************)
\* The checksum byte that ends the stream.
RECURSIVE SumRange(_, _, _)
SumRange(data, lo, hi) ==
    IF lo > hi THEN 0
    ELSE IF lo = hi THEN data[lo]
    ELSE SumRange(data, lo, (lo + hi) \div 2)
            + SumRange(data, ((lo + hi) \div 2) + 1, hi)

Checksum(data) == (1 + SumRange(data, 1, Len(data))) % 251

\* Variant: a raw deflate stream, without the zlib header.
ZlibEncoder_finish_raw(data) == data \o <<Checksum(data)>>

ZlibEncoder_finish(data) == <<ZLIB_HEADER>> \o data \o <<Checksum(data)>>

ZlibDecoder_read_exact(slice, len) ==
    IF Len(slice) < 2 \/ slice[1] # ZLIB_HEADER THEN Fail
    ELSE Then(SubSeq(slice, 2, Len(slice) - 1), LAMBDA payload :
            IF Len(payload) < len THEN Fail
            ELSE Ok(Take(payload, len), <<>>))

(***************************************************************************)
(* The Connection as a value threaded through the operations of one tick.  *)
(* Results of the operations are R(c, res, err, name): the connection      *)
(* afterwards, the action or "Err", the kind of error, and the username    *)
(* of a CreatePlayer action.                                               *)
(***************************************************************************)
R(c, res, err, name) == [c |-> c, res |-> res, err |-> err, name |-> name]

DoNothing(c) == R(c, "DoNothing", "", <<>>)
Close(c) == R(c, "Close", "", <<>>)
Err(c, kind) == R(c, "Err", kind, <<>>)

Envelope(c) == IF c.compressed THEN "compressed" ELSE "plain"

Written(c, kind, name, id, arg) ==
    [kind |-> kind, name |-> name, id |-> id, st |-> c.state,
     envelope |-> Envelope(c), arg |-> arg]

\* A write to the TcpStream: it fails once the peer has reset the connection.
CanWrite(c) == c.writes_left # 0

AfterWrite(c, w) ==
    [c EXCEPT !.stream = Append(@, w),
              !.writes_left = IF @ = NoLimit THEN @ ELSE @ - 1]

\* Variant: a packet of exactly the threshold length is still sent verbatim.
send_packet_frame_above(is_compressed, id, body) ==
    Then(write_var(id) \o body, LAMBDA data_buf :
        IF is_compressed
        THEN Then(IF Len(data_buf) > COMPRESSION_THRESHOLD
                  THEN write_var(Len(data_buf)) \o ZlibEncoder_finish(data_buf)
                  ELSE write_var(0) \o data_buf,
                  LAMBDA buf : write_var(Len(buf)) \o buf)
        ELSE write_var(Len(data_buf)) \o data_buf)

\* The bytes send_packet writes for a packet with this id and body.
send_packet_frame(is_compressed, id, body) ==
    Then(write_var(id) \o body, LAMBDA data_buf :
        IF is_compressed
        THEN Then(IF Len(data_buf) >= COMPRESSION_THRESHOLD
                  THEN write_var(Len(data_buf)) \o ZlibEncoder_finish(data_buf)
                  ELSE write_var(0) \o data_buf,
                  LAMBDA buf : write_var(Len(buf)) \o buf)
        ELSE write_var(Len(data_buf)) \o data_buf)

send_packet(c, name, id, arg) ==
    IF CanWrite(c)
    THEN DoNothing(AfterWrite(c, Written(c, "packet", name, id, arg)))
    ELSE Err(c, "Io")

\* request is &read[1..]; the response is the <1.4 form (1) when it is empty
\* and the 1.4-1.6 form (2) otherwise.
send_legacy_status_response(c, request) ==
    IF CanWrite(c)
    THEN DoNothing(AfterWrite(c,
            [kind |-> "legacy", name |-> "LegacyStatusResponse", id |-> 255,
             st |-> c.state, envelope |-> "legacy",
             arg |-> <<IF request = <<>> THEN 1 ELSE 2>>]))
    ELSE Err(c, "Io")

\* Variant: a kick is attempted in every state but Play.
send_kick_any_state(c, reason) ==
    IF c.state = "Play" THEN R(c, "Panic", "todo", <<>>)
    ELSE send_packet(c, "LoginDisconnect", 0, reason)

\* Variant: Status is kicked like Login.
send_kick_pre_login(c, reason) ==
    CASE c.state \in {"Status", "Login"} -> send_packet(c, "LoginDisconnect", 0, reason)
      [] c.state = "Play" -> R(c, "Panic", "todo", <<>>)
      [] OTHER -> Err(c, "KickNotAllowedInState")

send_kick(c, reason) ==
    CASE c.state = "Login" -> send_packet(c, "LoginDisconnect", 0, reason)
      [] c.state = "Play" -> R(c, "Panic", "todo", <<>>)
      [] OTHER -> Err(c, "KickNotAllowedInState")

\* Variant: the pending partial packet is discarded before the kick.
send_error_kick_reset(c, error) == send_kick([c EXCEPT !.packet = None], error)

send_error_kick(c, error) == send_kick(c, error)

set_state(c, s) ==
    [c EXCEPT !.state = s, !.transitions = Append(@, <<c.state, s>>)]

(***************************************************************************)
(* pre_login.rs and net/login.rs: the server-bound packets.  A decoder     *)
(* result is [ok, err, pkt]; bytes left over in the body are ignored, as   *)
(* the readers never check that the body was consumed.                     *)
(***************************************************************************)
Pkt(type, next_state, payload, name) ==
    [type |-> type, next_state |-> next_state, payload |-> payload, name |-> name]

NoPkt == Pkt("None", 0, <<>>, <<>>)

Decoded(pkt) == [ok |-> TRUE, err |-> "", pkt |-> pkt]
DecodeErr(kind) == [ok |-> FALSE, err |-> kind, pkt |-> NoPkt]

\* #[derive(TryFromPrimitive)] enum NextState { Status = 1, Login = 2 }
NextState == {1, 2}

Handshake_read(buf) ==
    Then(read_var(buf), LAMBDA version :
    IF ~version.ok THEN DecodeErr("Read") ELSE
    Then(read_string(version.rest), LAMBDA server_addr :
    IF ~server_addr.ok THEN DecodeErr("Read") ELSE
    Then(read_u16(server_addr.rest), LAMBDA server_port :
    IF ~server_port.ok THEN DecodeErr("Read") ELSE
    Then(read_var(server_port.rest), LAMBDA next_state :
    IF ~next_state.ok THEN DecodeErr("Read")
    ELSE IF next_state.val \notin NextState THEN DecodeErr("InvalidNextState")
    ELSE Decoded(Pkt("Handshake", next_state.val, <<>>, <<>>))))))

LegacyPingRequest_read(buf) ==
    Then(read_u16(buf), LAMBDA next_two_bytes :
        IF ~next_two_bytes.ok THEN DecodeErr("Read")
        ELSE IF next_two_bytes.val # 506 THEN DecodeErr("InvalidLegacyPing")
        ELSE Decoded(Pkt("LegacyPingRequest", 0, <<>>, <<>>)))

StatusRequest_read(buf) == Decoded(Pkt("StatusRequest", 0, <<>>, <<>>))

PingRequest_read(buf) ==
    Then(read_i64(buf), LAMBDA payload :
        IF ~payload.ok THEN DecodeErr("Read")
        ELSE Decoded(Pkt("PingRequest", 0, payload.val, <<>>)))

\* The fields that a LoginStart::read gives: the name and the Option<Uuid>
\* (the empty sequence for None), or an error.
NoLoginStart == [ok |-> FALSE, name |-> <<>>, uuid |-> <<>>]
LoginStart_of(name, id) == [ok |-> TRUE, name |-> name, uuid |-> id]

\* net/login.rs: the name, the boolean for the UUID, the UUID.
LoginStart_fields(buf) ==
    Then(read_string(buf), LAMBDA name :
    IF ~name.ok THEN NoLoginStart ELSE
    Then(read_bool(name.rest), LAMBDA has_uuid :
    IF ~has_uuid.ok THEN NoLoginStart
    ELSE IF ~has_uuid.val THEN LoginStart_of(name.val, <<>>)
    ELSE Then(read_uuid(has_uuid.rest), LAMBDA id :
            IF ~id.ok THEN NoLoginStart ELSE LoginStart_of(name.val, id.val))))

LoginStart_read(buf) ==
    Then(LoginStart_fields(buf), LAMBDA fields :
        IF ~fields.ok THEN DecodeErr("Read")
        ELSE Decoded(Pkt("LoginStart", 0, <<>>, fields.name)))

\* mc/login.rs, the older reader.  Signature::read: the expiration time,
\* the public key and the signature, each of the two with its length.
Signature_read(buf) ==
    Then(read_i64(buf), LAMBDA expiration_time :
    IF ~expiration_time.ok THEN Fail ELSE
    Then(read_var(expiration_time.rest), LAMBDA public_key_len :
    IF ~public_key_len.ok \/ public_key_len.val < 0 THEN Fail ELSE
    Then(read_bytes(public_key_len.rest, public_key_len.val), LAMBDA public_key :
    IF ~public_key.ok THEN Fail ELSE
    Then(read_var(public_key.rest), LAMBDA signature_len :
    IF ~signature_len.ok \/ signature_len.val < 0 THEN Fail
    ELSE read_bytes(signature_len.rest, signature_len.val)))))

\* mc/login.rs: the name, the boolean for the signature, the signature, the
\* boolean for the UUID, the UUID.
LoginStart_fields_signed(buf) ==
    Then(read_string(buf), LAMBDA name :
    IF ~name.ok THEN NoLoginStart ELSE
    Then(read_bool(name.rest), LAMBDA has_signature :
    IF ~has_signature.ok THEN NoLoginStart ELSE
    Then(IF has_signature.val THEN Signature_read(has_signature.rest)
         ELSE Ok(<<>>, has_signature.rest), LAMBDA signature :
    IF ~signature.ok THEN NoLoginStart ELSE
    Then(read_bool(signature.rest), LAMBDA has_uuid :
    IF ~has_uuid.ok THEN NoLoginStart
    ELSE IF ~has_uuid.val THEN LoginStart_of(name.val, <<>>)
    ELSE Then(read_uuid(has_uuid.rest), LAMBDA id :
            IF ~id.ok THEN NoLoginStart ELSE LoginStart_of(name.val, id.val))))))

\* packets_from_client!: the ids each state's decoder matches.
decode_handshake(id, buf) ==
    CASE id = 0 -> Handshake_read(buf)
      [] id = 254 -> LegacyPingRequest_read(buf)
      [] OTHER -> DecodeErr("InvalidPacketId")

decode_status(id, buf) ==
    CASE id = 0 -> StatusRequest_read(buf)
      [] id = 1 -> PingRequest_read(buf)
      [] OTHER -> DecodeErr("InvalidPacketId")

\* Variant: the login decoder also takes id 1 for a LoginStart.
decode_login_two_ids(id, buf) ==
    CASE id \in {0, 1} -> LoginStart_read(buf)
      [] OTHER -> DecodeErr("InvalidPacketId")

decode_login(id, buf) ==
    CASE id = 0 -> LoginStart_read(buf)
      [] OTHER -> DecodeErr("InvalidPacketId")

(***************************************************************************)
(* The handlers.                                                           *)
(***************************************************************************)
\* Server::listing: protocol, players online, players max.
Listing == <<761, 0, 1>>

\* Variant: the two next states are swapped.
handle_handshake_packet_swapped(c, handshake) ==
    IF handshake.next_state = 1
    THEN DoNothing(set_state(c, "Login"))
    ELSE DoNothing(set_state(c, "Status"))

handle_handshake_packet(c, handshake) ==
    IF handshake.next_state = 1
    THEN DoNothing(set_state(c, "Status"))
    ELSE DoNothing(set_state(c, "Login"))

\* Variant: a StatusRequest is answered twice.
handle_status_packet_twice(c, pkt) ==
    IF pkt.type = "StatusRequest"
    THEN Then(send_packet(c, "StatusResponse", 0, Listing), LAMBDA first :
            IF first.res = "Err" THEN first
            ELSE send_packet(first.c, "StatusResponse", 0, Listing))
    ELSE send_packet(c, "PingResponse", 1, pkt.payload)

handle_status_packet(c, pkt) ==
    IF pkt.type = "StatusRequest"
    THEN send_packet(c, "StatusResponse", 0, Listing)
    ELSE send_packet(c, "PingResponse", 1, pkt.payload)

\* LoginStart asks the driver to create the player.
LoginStart_handle(c, pkt) == R(c, "CreatePlayer", "", pkt.name)

handle(c, pkt) ==
    CASE pkt.type = "Handshake" -> handle_handshake_packet(c, pkt)
      [] pkt.type = "LegacyPingRequest" -> DoNothing(c)
      [] pkt.type \in {"StatusRequest", "PingRequest"} -> handle_status_packet(c, pkt)
      [] OTHER -> LoginStart_handle(c, pkt)

\* Variant: the Status state still decodes with the handshake decoder.
decode_rehandshake(st, id, buf) ==
    CASE st \in {"Handshake", "Status"} -> decode_handshake(id, buf)
      [] OTHER -> decode_login(id, buf)

decode(st, id, buf) ==
    CASE st = "Handshake" -> decode_handshake(id, buf)
      [] st = "Status" -> decode_status(id, buf)
      [] OTHER -> decode_login(id, buf)

\* ghost: the packet id and body dispatched, the state it was dispatched in,
\* the envelope its frame was read in and how much had been written by then.
Dispatched(c, id, buf) ==
    [st |-> c.state, id |-> id, buf |-> buf, envelope |-> Envelope(c),
     sent |-> Len(c.stream)]

\* Variant: a packet received in Play is decoded like one received in Login.
decode_and_handle_packet_no_play(c0, id, buf) ==
    Then([c0 EXCEPT !.handled = Append(@, Dispatched(c0, id, buf))], LAMBDA c :
        Then(decode(c.state, id, buf), LAMBDA decoded :
            IF ~decoded.ok THEN Err(c, decoded.err)
            ELSE handle(c, decoded.pkt)))

decode_and_handle_packet(c0, id, buf) ==
    Then([c0 EXCEPT !.handled = Append(@, Dispatched(c0, id, buf))], LAMBDA c :
        IF c.state = "Play" THEN DoNothing(c)
        ELSE Then(decode(c.state, id, buf), LAMBDA decoded :
                IF ~decoded.ok THEN Err(c, decoded.err)
                ELSE handle(c, decoded.pkt)))

(***************************************************************************)
(* net.rs: Connection::tick.                                               *)
(***************************************************************************)
\* The envelope step for a complete frame: the packet data inside it.
Unframe(c, body) ==
    IF c.compressed
    THEN Then(read_var(body), LAMBDA len :
            IF ~len.ok \/ len.val < 0 THEN Fail
            ELSE IF len.val # 0 THEN ZlibDecoder_read_exact(len.rest, len.val)
            ELSE Ok(len.rest, <<>>))
    ELSE Ok(body, <<>>)

OnFull(c, body) ==
    Then(Unframe(c, body), LAMBDA data :
    IF ~data.ok THEN Err(c, "Envelope") ELSE
    Then(read_var(data.val), LAMBDA id :
    IF ~id.ok THEN Err(c, "PacketId")
    ELSE decode_and_handle_packet(c, id.val, id.rest)))

\* Variant: definitely_modern is not consulted.
IsLegacyProbe_any_byte(c, byte) == byte = LEGACY_PING

\* The first byte ever received is the legacy ping id.
IsLegacyProbe(c, byte) == ~c.definitely_modern /\ byte = LEGACY_PING

\* Variant: only an error ends the loop over the bytes read.
Propagate_errors_only(r) == r.res = "Err"

\* The loop over the bytes read ends at the first action that is not
\* DoNothing (and at the first error, by the ? operator).
Propagate(r) == r.res # "DoNothing"

\* The loop goes on to the next byte.
Going(c) == R(c, "Going", "", <<>>)

\* The body of the loop for byte i of the read: the result that ends the
\* tick, or Going.
TickByte(c, read, i) ==
    IF IsLegacyProbe(c, read[i])
    THEN Then(send_legacy_status_response(c, Drop(read, 1)), LAMBDA sent :
            IF sent.res = "Err" THEN sent ELSE Close(sent.c))
    ELSE Then([c EXCEPT !.definitely_modern = TRUE, !.packet = None], LAMBDA taken :
         Then(PartialPacket_next(
                IF c.packet.tag = "None" THEN PartialPacket_new ELSE c.packet,
                read[i]), LAMBDA next :
            CASE next.tag = "Err" -> Err(taken, "Frame")
              [] next.tag = "Full" ->
                   Then(OnFull(taken, next.body), LAMBDA r :
                        IF Propagate(r) THEN r ELSE Going(r.c))
              [] OTHER -> Going([taken EXCEPT !.packet = next])))

\* The loop over bytes lo..hi of the read, one byte after the other; the
\* range is halved so that a long read does not nest deeply.
RECURSIVE TickRange(_, _, _, _)
TickRange(s, read, lo, hi) ==
    IF s.res # "Going" \/ lo > hi THEN s
    ELSE IF lo = hi THEN TickByte(s.c, read, lo)
    ELSE TickRange(TickRange(s, read, lo, (lo + hi) \div 2),
                   read, ((lo + hi) \div 2) + 1, hi)

TickBytes(c, read) ==
    Then(TickRange(Going(c), read, 1, Len(read)), LAMBDA s :
        IF s.res = "Going" THEN DoNothing(s.c) ELSE s)

\* Variant: end of file also drops the pending partial packet.
tick_eof_resets(c, rd) ==
    IF ~rd.ok THEN Err(c, "Io")
    ELSE IF rd.bytes = <<>> THEN Close([c EXCEPT !.packet = None])
    ELSE TickBytes(c, rd.bytes)

\* rd is what the blocking read returned: an error, or the bytes read.
tick(c, rd) ==
    IF ~rd.ok THEN Err(c, "Io")
    ELSE IF rd.bytes = <<>> THEN Close(c)
    ELSE TickBytes(c, rd.bytes)

(***************************************************************************)
(* player.rs and play/setup.rs: the login hand-off.                        *)
(***************************************************************************)
MaxI32 == 2147483647
MinI32 == (0 - MaxI32) - 1

\* The whole call, which is atomic under the write lock: write().unwrap()
\* panics on a poisoned lock; `*locked += 1` at i32::MAX panics and poisons
\* the lock in a build with overflow checks and wraps in one without.
Server_next_entity_id(c) ==
    IF c.lock.poisoned THEN [panicked |-> TRUE, id |-> 0, c |-> c]
    ELSE IF c.next_entity_id < MaxI32
    THEN [panicked |-> FALSE, id |-> c.next_entity_id,
          c |-> [c EXCEPT !.next_entity_id = @ + 1]]
    ELSE IF c.overflow_checks
    THEN [panicked |-> TRUE, id |-> 0, c |-> [c EXCEPT !.lock.poisoned = TRUE]]
    ELSE [panicked |-> FALSE, id |-> c.next_entity_id,
          c |-> [c EXCEPT !.next_entity_id = MinI32]]

set_up(c) ==
    Then(Server_next_entity_id(c), LAMBDA entity :
    IF entity.panicked THEN R(entity.c, "Panic", "next_entity_id", <<>>) ELSE
    Then(send_packet(entity.c, "PlayLogin", 36, <<entity.id>>), LAMBDA login :
    IF login.res = "Err" THEN login
    ELSE send_packet(login.c, "PluginMessage", 21, <<>>)))

\* Variant: the compressed flag is not set after SetCompression.
finish_joining_unflagged(c, id, username) ==
    Then(send_packet(c, "SetCompression", 3, <<COMPRESSION_THRESHOLD>>),
         LAMBDA compression :
    IF compression.res = "Err" THEN compression ELSE
    Then(send_packet(compression.c, "LoginSuccess", 2, <<id>> \o username),
         LAMBDA success :
    IF success.res = "Err" THEN success
    ELSE set_up(set_state(success.c, "Play"))))

\* Variant: the play setup runs before the state is set to Play.
finish_joining_early_set_up(c, id, username) ==
    Then(send_packet(c, "SetCompression", 3, <<COMPRESSION_THRESHOLD>>),
         LAMBDA compression :
    IF compression.res = "Err" THEN compression ELSE
    Then(send_packet([compression.c EXCEPT !.compressed = TRUE],
                     "LoginSuccess", 2, <<id>> \o username),
         LAMBDA success :
    IF success.res = "Err" THEN success ELSE
    Then(set_up(success.c), LAMBDA play :
    IF play.res # "DoNothing" THEN play
    ELSE DoNothing(set_state(play.c, "Play")))))

finish_joining(c, id, username) ==
    Then(send_packet(c, "SetCompression", 3, <<COMPRESSION_THRESHOLD>>),
         LAMBDA compression :
    IF compression.res = "Err" THEN compression ELSE
    Then(send_packet([compression.c EXCEPT !.compressed = TRUE],
                     "LoginSuccess", 2, <<id>> \o username),
         LAMBDA success :
    IF success.res = "Err" THEN success
    ELSE set_up(set_state(success.c, "Play"))))

(***************************************************************************)
(* server.rs: the worker.  A driver result is [c, connection, uuid, res,   *)
(* err]; connection is the ConnectionOrPlayer: "Connection" for            *)
(* Connection(Some), "Taken" for Connection(None), "Player" for Player.    *)
(***************************************************************************)
U(c, conn, id, res, err) ==
    [c |-> c, connection |-> conn, uuid |-> id, res |-> res, err |-> err]

User_tick(c, conn, id, rd, fresh) ==
    Then(tick(c, rd), LAMBDA action :
        CASE action.res = "Err" -> U(action.c, conn, id, "Err", action.err)
          [] action.res = "CreatePlayer" ->
                IF conn # "Connection"
                THEN U(action.c, conn, id, "Panic", "already a player")
                ELSE Then(finish_joining(action.c, fresh, action.name), LAMBDA joined :
                        IF joined.res \in {"Err", "Panic"}
                        THEN U(joined.c, "Taken", fresh, joined.res, joined.err)
                        ELSE U(joined.c, "Player", fresh, "DoNothing", ""))
          [] OTHER -> U(action.c, conn, id, action.res, ""))

\* The thread after one iteration of the loop: [t, c, worker, last].
Ran(t, c, w) ==
    [t |-> t, c |-> c, worker |-> w,
     last |-> [res |-> t.res, err |-> t.err, st |-> t.c.state]]

\* Variant: an error is logged and the loop goes on.
User_run_keep_going(c, conn, id, rd, fresh) ==
    Then(User_tick(c, conn, id, rd, fresh), LAMBDA t :
        CASE t.res = "Panic" -> Ran(t, t.c, "panicked")
          [] t.res = "Close" -> Ran(t, t.c, "closed")
          [] OTHER -> Ran(t, t.c, "running"))

\* One iteration of the loop of User::run.
User_run(c, conn, id, rd, fresh) ==
    Then(User_tick(c, conn, id, rd, fresh), LAMBDA t :
        CASE t.res = "Panic" -> Ran(t, t.c, "panicked")
          [] t.res = "Close" -> Ran(t, t.c, "closed")
          [] t.res = "Err" ->
                IF t.connection = "Taken"
                THEN Ran(t, t.c, "panicked")
                ELSE Then(send_error_kick(t.c, <<>>), LAMBDA kick :
                        IF kick.res = "Panic"
                        THEN Ran(t, kick.c, "panicked")
                        ELSE Ran(t, kick.c, "closed"))
          [] OTHER -> Ran(t, t.c, "running"))

(***************************************************************************)
(* What the client sends.  Each read returns one of these chunks.          *)
(***************************************************************************)
\* Handshake{protocol 761, addr "x", port 25565, next_state n}
HandshakeFrame(n) == <<8, 0, 249, 5, 1, 120, 99, 221, n>>
StatusRequestFrame == <<1, 0>>
PingPayload == <<1, 35, 69, 103, 137, 171, 205, 239>>
PingRequestFrame == <<9, 1>> \o PingPayload
\* LoginStart{name "N", no uuid}
LoginStartFrame == <<4, 0, 1, 78, 0>>
UnknownIdFrame == <<1, 5>>
\* id 0xfe followed by 0x01fa
LegacyIdFrame == <<4, 254, 1, 1, 250>>
\* compressed envelope, data length 0, id 7
PlayFrame == <<2, 0, 7>>
\* compressed envelope, data length 1, a stream holding the one byte 7
ZlibFrame == <<4, 1, ZLIB_HEADER, 7, 8>>
\* a length prefix of five continuation bytes
LongVarInt == <<128, 128, 128, 128, 128>>

Chunks ==
    { HandshakeFrame(1), HandshakeFrame(2), HandshakeFrame(3),
      StatusRequestFrame, PingRequestFrame, LoginStartFrame,
      UnknownIdFrame, LegacyIdFrame, PlayFrame, ZlibFrame, LongVarInt,
      <<LEGACY_PING>>, <<LEGACY_PING, 1, 250>>,
      Take(HandshakeFrame(1), 4), Drop(HandshakeFrame(1), 4),
      HandshakeFrame(1) \o StatusRequestFrame \o PingRequestFrame \o StatusRequestFrame,
      HandshakeFrame(2) \o LoginStartFrame \o PlayFrame,
      PingRequestFrame \o <<LEGACY_PING>> }

Reads ==
    {[ok |-> TRUE, bytes |-> b] : b \in Chunks \cup {<<>>}}
        \cup {[ok |-> FALSE, bytes |-> <<>>]}

\* Uuid::new_v4
Uuids == {1, 2}

(***************************************************************************)
(* The state machine.                                                      *)
(***************************************************************************)
Conn ==
    [state |-> state, compressed |-> compressed,
     definitely_modern |-> definitely_modern, packet |-> packet,
     next_entity_id |-> next_entity_id, stream |-> stream, handled |-> handled,
     transitions |-> transitions, writes_left |-> writes_left,
     lock |-> lock, overflow_checks |-> overflow_checks]

NoTick == [res |-> "None", err |-> "", st |-> "Handshake"]

\* Connection::new and User::new, on a stream with some budget of writes.
NewConnection ==
    /\ state = "Handshake"
    /\ compressed = FALSE
    /\ definitely_modern = FALSE
    /\ packet = None
    /\ uuid = 0
    /\ connection = "Connection"
    /\ next_entity_id = 0
    /\ worker = "running"
    /\ stream = <<>>
    /\ handled = <<>>
    /\ transitions = <<>>
    /\ last = NoTick
    /\ received = <<>>
    /\ writes_left \in (0..MaxWrites) \cup {NoLimit}
    /\ peer_closed = FALSE
    /\ ticks = 0

\* No codec run.
NoCodec ==
    /\ step = "idle"
    /\ input = [kind |-> "none"]
    /\ wire = <<>>
    /\ output = None

Threads == 1..MaxThreads

\* RwLock::new: not poisoned, no writer (writer is the thread that holds the
\* write guard, 0 for none).
Unlocked == [poisoned |-> FALSE, writer |-> 0]

\* No thread is calling Server::next_entity_id; the counter of a server
\* just bound is 0 (Server::bind).
NoCalls ==
    /\ lock = Unlocked
    /\ threads = [t \in Threads |-> [pc |-> "idle", next |-> 0, calls |-> 0]]
    /\ overflow_checks = FALSE
    /\ entity_ids = [first |-> 0, returned |-> <<>>]

\* Registry::new: the lock is not poisoned and holds None.  The map, when
\* there is one, is the sequence of its (key, value) pairs in the order in
\* which the HashMap iterates over them.
Registry_new == [poisoned |-> FALSE, some |-> FALSE, map |-> <<>>]

NoCall ==
    [op |-> "none", key |-> "", value |-> 0, panicked |-> FALSE,
     before |-> Registry_new, output |-> <<>>]

\* A registry just constructed, with an init function that registers nothing
\* (MESSAGE_TYPES).
NoRegistry ==
    /\ entries = Registry_new
    /\ registry = [init_fn |-> <<>>, init_fn_runs |-> 0, registered |-> <<>>]
    /\ called = NoCall

\* No other connection is served.
NoUsers == users = <<>>

Init ==
    /\ NewConnection
    /\ NoCodec
    /\ NoCalls
    /\ NoRegistry
    /\ NoUsers

Store(r, rd) ==
    /\ received' = Append(received, rd.bytes)
    /\ state' = r.c.state
    /\ compressed' = r.c.compressed
    /\ definitely_modern' = r.c.definitely_modern
    /\ packet' = r.c.packet
    /\ next_entity_id' = r.c.next_entity_id
    /\ stream' = r.c.stream
    /\ handled' = r.c.handled
    /\ transitions' = r.c.transitions
    /\ writes_left' = r.c.writes_left
    /\ uuid' = r.t.uuid
    /\ connection' = r.t.connection
    /\ worker' = r.worker
    /\ last' = r.last
    /\ ticks' = ticks + 1
    /\ UNCHANGED peer_closed
    /\ UNCHANGED codec_vars
    /\ UNCHANGED users
    /\ UNCHANGED server_vars
    /\ UNCHANGED registry_vars

\* What a blocking read can return: once the peer has closed, end of file or
\* an error; before that, whatever the peer sent.
ReadsNow == IF peer_closed THEN {rd \in Reads : rd.bytes = <<>>} ELSE Reads

\* One iteration of the loop of User::run.  The number of reads that return
\* data is bounded; the read that meets the closed socket always returns.
UserRun ==
    /\ worker = "running"
    /\ ticks < MaxTicks \/ peer_closed
    /\ \E rd \in ReadsNow, fresh \in Uuids :
          Store(User_run(Conn, connection, uuid, rd, fresh), rd)

\* The peer closes the socket of a connection that is still served.
PeerClose ==
    /\ worker = "running"
    /\ ~peer_closed
    /\ peer_closed' = TRUE
    /\ UNCHANGED <<state, compressed, definitely_modern, packet, uuid,
                   connection, next_entity_id, worker, stream, handled,
                   transitions, last, received, writes_left, ticks>>
    /\ UNCHANGED codec_vars
    /\ UNCHANGED users
    /\ UNCHANGED server_vars
    /\ UNCHANGED registry_vars

Next == UserRun \/ PeerClose

Spec == Init /\ [][Next]_vars

\* The worker thread is scheduled and its blocking read returns.
LiveSpec == Spec /\ WF_vars(UserRun)

(***************************************************************************)
(* server.rs: Server::next_entity_id called by several threads.  The call  *)
(* takes the write lock, reads the counter, adds one to it and returns     *)
(* what it read, dropping the guard.  The addition `*locked += 1` on an    *)
(* i32 that holds i32::MAX panics in a build with overflow checks (the     *)
(* default of the dev profile) and wraps in a build without them (the      *)
(* default of the release profile); a panic while the guard is held        *)
(* poisons the lock, and write().unwrap() on a poisoned lock panics.       *)
(***************************************************************************)
\* Everything of the connection but the counter of the server.
worker_vars == <<state, compressed, definitely_modern, packet, uuid, connection,
                 worker, stream, handled, transitions, last, received,
                 writes_left, peer_closed, ticks>>

\* Variant: write() never waits for the thread that holds the lock.
RwLock_free_unlocked(l) == TRUE

\* write() returns once no other thread holds the lock.
RwLock_free(l) == l.writer = 0

\* self.0.next_entity_id.write().unwrap()
Write(t) ==
    /\ threads[t].pc = "idle"
    /\ threads[t].calls < MaxCalls
    /\ RwLock_free(lock)
    /\ IF lock.poisoned
       THEN /\ threads' = [threads EXCEPT ![t].pc = "panicked"]
            /\ UNCHANGED lock
       ELSE /\ threads' = [threads EXCEPT ![t].pc = "locked"]
            /\ lock' = [lock EXCEPT !.writer = t]
    /\ UNCHANGED <<next_entity_id, overflow_checks, entity_ids>>
    /\ UNCHANGED worker_vars
    /\ UNCHANGED codec_vars
    /\ UNCHANGED users
    /\ UNCHANGED registry_vars

\* let next = *locked;
ReadCounter(t) ==
    /\ threads[t].pc = "locked"
    /\ threads' = [threads EXCEPT ![t].pc = "read", ![t].next = next_entity_id]
    /\ UNCHANGED <<next_entity_id, lock, overflow_checks, entity_ids>>
    /\ UNCHANGED worker_vars
    /\ UNCHANGED codec_vars
    /\ UNCHANGED users
    /\ UNCHANGED registry_vars

\* *locked += 1;
AddOne(t) ==
    /\ threads[t].pc = "read"
    /\ IF next_entity_id < MaxI32
       THEN /\ next_entity_id' = next_entity_id + 1
            /\ threads' = [threads EXCEPT ![t].pc = "added"]
            /\ UNCHANGED lock
       ELSE IF overflow_checks
       THEN /\ threads' = [threads EXCEPT ![t].pc = "panicked"]
            /\ lock' = [poisoned |-> TRUE, writer |-> 0]
            /\ UNCHANGED next_entity_id
       ELSE /\ next_entity_id' = MinI32
            /\ threads' = [threads EXCEPT ![t].pc = "added"]
            /\ UNCHANGED lock
    /\ UNCHANGED <<overflow_checks, entity_ids>>
    /\ UNCHANGED worker_vars
    /\ UNCHANGED codec_vars
    /\ UNCHANGED users
    /\ UNCHANGED registry_vars

\* next: the guard is dropped and the value read is returned.
Return(t) ==
    /\ threads[t].pc = "added"
    /\ threads' = [threads EXCEPT ![t].pc = "idle", ![t].calls = @ + 1]
    /\ lock' = IF lock.writer = t THEN [lock EXCEPT !.writer = 0] ELSE lock
    /\ entity_ids' = [entity_ids EXCEPT
                        !.returned = Append(@, [thread |-> t, id |-> threads[t].next])]
    /\ UNCHANGED <<next_entity_id, overflow_checks>>
    /\ UNCHANGED worker_vars
    /\ UNCHANGED codec_vars
    /\ UNCHANGED users
    /\ UNCHANGED registry_vars

\* The counter of a server just bound, and of one that has given out nearly
\* all the ids.
FirstIds == {0, MaxI32 - 1, MaxI32}

\* No connection has been accepted yet.
NoConnection ==
    /\ state = "Handshake"
    /\ compressed = FALSE
    /\ definitely_modern = FALSE
    /\ packet = None
    /\ uuid = 0
    /\ connection = "Connection"
    /\ worker = "running"
    /\ stream = <<>>
    /\ handled = <<>>
    /\ transitions = <<>>
    /\ last = NoTick
    /\ received = <<>>
    /\ writes_left = NoLimit
    /\ peer_closed = FALSE
    /\ ticks = 0

ServerInit ==
    /\ NoConnection
    /\ NoUsers
    /\ NoCodec
    /\ NoRegistry
    /\ lock = Unlocked
    /\ threads = [t \in Threads |-> [pc |-> "idle", next |-> 0, calls |-> 0]]
    /\ overflow_checks \in BOOLEAN
    /\ next_entity_id \in FirstIds
    /\ entity_ids = [first |-> next_entity_id, returned |-> <<>>]

ServerNext ==
    \/ \E t \in Threads : Write(t)
    \/ \E t \in Threads : ReadCounter(t)
    \/ \E t \in Threads : AddOne(t)
    \/ \E t \in Threads : Return(t)

ServerSpec == ServerInit /\ [][ServerNext]_vars

(***************************************************************************)
(* registry.rs.  Each operation is given as what it leaves in the lock and *)
(* whether it panicked.  A panic while the write guard is held poisons the *)
(* lock, and read().unwrap() and write().unwrap() panic on a poisoned      *)
(* lock; a panic under a read guard does not poison.  The HashMap iterates *)
(* in an order that its hasher and its capacity decide: an insertion       *)
(* leaves the pairs in any order.                                          *)
(***************************************************************************)
Outcome_of(e, panicked, out) ==
    [entries |-> e, panicked |-> panicked, output |-> out]

Keys_of(map) == {map[i][1] : i \in 1..Len(map)}

\* The orders in which a HashMap with these pairs may iterate.
Orders(pairs) ==
    {o \in [1..Cardinality(pairs) -> pairs] :
        \A i, j \in 1..Cardinality(pairs) : i # j => o[i] # o[j]}

\* HashMap::insert of a key that is not in the map: the orders of the map
\* after it.  A key that is in the map is never inserted.
Inserted(map, key, value) ==
    IF key \in Keys_of(map) THEN {map}
    ELSE Orders(Range(map) \cup {<<key, value>>})

\* Variant: a key already present gets the new value.
Registry_register_replacing(e, key, value, order) ==
    IF e.poisoned THEN Outcome_of(e, TRUE, <<>>)
    ELSE IF ~e.some THEN Outcome_of([e EXCEPT !.poisoned = TRUE], TRUE, <<>>)
    ELSE IF key \in Keys_of(e.map)
    THEN Outcome_of([e EXCEPT !.map = [i \in 1..Len(e.map) |->
                        IF e.map[i][1] = key THEN <<key, value>> ELSE e.map[i]]],
                    FALSE, <<>>)
    ELSE Outcome_of([e EXCEPT !.map = order], FALSE, <<>>)

\* Registry::register through write_entries; order is the iteration order
\* of the map after the insertion, one of Inserted(e.map, key, value).
Registry_register(e, key, value, order) ==
    IF e.poisoned THEN Outcome_of(e, TRUE, <<>>)
    ELSE IF ~e.some \/ key \in Keys_of(e.map)
    THEN Outcome_of([e EXCEPT !.poisoned = TRUE], TRUE, <<>>)
    ELSE Outcome_of([e EXCEPT !.map = order], FALSE, <<>>)

\* The init functions of world.rs: each registers its keys with register.
RECURSIVE RegisterAll(_, _, _)
RegisterAll(e, keys, order) ==
    IF keys = <<>> THEN Outcome_of(e, FALSE, <<>>)
    ELSE Then(Registry_register(e, Head(keys), 1,
                  IF Len(keys) = 1 THEN order
                  ELSE Append(e.map, <<Head(keys), 1>>)), LAMBDA first :
            IF first.panicked THEN first
            ELSE RegisterAll(first.entries, Tail(keys), order))

\* Variant: init on an initialised registry starts over with an empty map.
Registry_init_again(e, init_fn, order) ==
    IF e.poisoned THEN Outcome_of(e, TRUE, <<>>)
    ELSE RegisterAll([e EXCEPT !.some = TRUE, !.map = <<>>], init_fn, order)

\* Registry::init; order is the iteration order of the map once the init
\* function has registered its keys.
Registry_init(e, init_fn, order) ==
    IF e.poisoned THEN Outcome_of(e, TRUE, <<>>)
    ELSE IF e.some THEN Outcome_of([e EXCEPT !.poisoned = TRUE], TRUE, <<>>)
    ELSE RegisterAll([e EXCEPT !.some = TRUE, !.map = <<>>], init_fn, order)

\* Serialize for Registry through read_entries: the entries of the map as
\* it iterates, numbered by enumerate().
Registry_serialize(e) ==
    IF e.poisoned \/ ~e.some THEN Outcome_of(e, TRUE, <<>>)
    ELSE Outcome_of(e, FALSE,
            [i \in 1..Len(e.map) |->
                [name |-> e.map[i][1], id |-> i - 1, element |-> e.map[i][2]]])

\* The keys of world.rs; two values, to tell a replaced value.
Identifiers == {"minestodon:tootlands", "minecraft:plains", "minestodon:fediverse"}

Elements == {1, 2}

\* The init functions: of MESSAGE_TYPES, of DIMENSION_TYPES and of BIOMES.
InitFns ==
    { <<>>, <<"minestodon:fediverse">>,
      <<"minestodon:tootlands", "minecraft:plains">> }

RegistryInit ==
    /\ NoConnection
    /\ NoUsers
    /\ next_entity_id = 0
    /\ NoCodec
    /\ NoCalls
    /\ entries = Registry_new
    /\ registry \in [init_fn : InitFns, init_fn_runs : {0}, registered : {<<>>}]
    /\ called = NoCall

Calling(op, key, value, r) ==
    /\ entries' = r.entries
    /\ called' = [op |-> op, key |-> key, value |-> value,
                   panicked |-> r.panicked, before |-> entries,
                   output |-> r.output]
    /\ UNCHANGED conn_vars
    /\ UNCHANGED codec_vars
    /\ UNCHANGED users
    /\ UNCHANGED server_vars

\* The pairs that the init function registers.
InitPairs == {<<registry.init_fn[i], 1>> : i \in 1..Len(registry.init_fn)}

CallInit ==
    \E order \in Orders(InitPairs) :
        Then(Registry_init(entries, registry.init_fn, order), LAMBDA r :
            /\ Calling("init", "", 0, r)
            /\ registry' =
                  IF entries.poisoned \/ entries.some THEN registry
                  ELSE [registry EXCEPT !.init_fn_runs = @ + 1,
                                        !.registered = @ \o registry.init_fn])

CallRegister ==
    \E key \in Identifiers, value \in Elements :
        \E order \in Inserted(entries.map, key, value) :
            Then(Registry_register(entries, key, value, order), LAMBDA r :
                /\ Calling("register", key, value, r)
                /\ registry' =
                      IF r.panicked THEN registry
                      ELSE [registry EXCEPT !.registered = Append(@, key)])

CallSerialize ==
    /\ Calling("serialize", "", 0, Registry_serialize(entries))
    /\ UNCHANGED registry

RegistryNext == CallInit \/ CallRegister \/ CallSerialize

RegistrySpec == RegistryInit /\ [][RegistryNext]_vars

(***************************************************************************)
(* text.rs and the legacy status response of net.rs.  Here a String is the *)
(* sequence of its chars (Unicode scalar values), so that chars().count()  *)
(* is its length.  A Text is [tag, string, children, formatting]: tag      *)
(* String (string), Sequential (children) or Full (string is the content,  *)
(* with children and formatting).  The color of a formatting is kept as    *)
(* the char that TextColor::legacy_char gives for it, 0 for no color.      *)
(***************************************************************************)
ESCAPE_CHAR == 167

NoFormatting ==
    [color |-> 0, bolded |-> FALSE, italicized |-> FALSE, underlined |-> FALSE,
     struck_through |-> FALSE, obfuscated |-> FALSE]

Text_from(string) ==
    [tag |-> "String", string |-> string, children |-> <<>>,
     formatting |-> NoFormatting]

\* modify_as_full on a Text::String, with the formatting set.
Text_full(string, children, formatting) ==
    [tag |-> "Full", string |-> string, children |-> children,
     formatting |-> formatting]

Text_sequential(children) ==
    [tag |-> "Sequential", string |-> <<>>, children |-> children,
     formatting |-> NoFormatting]

RECURSIVE to_plain_string(_), PlainStrings(_)
PlainStrings(texts) ==
    IF texts = <<>> THEN <<>>
    ELSE to_plain_string(Head(texts)) \o PlainStrings(Tail(texts))

to_plain_string(text) ==
    CASE text.tag = "String" -> text.string
      [] text.tag = "Sequential" -> PlainStrings(text.children)
      [] OTHER -> text.string \o PlainStrings(text.children)

\* TextFormatting::legacy_codes
legacy_codes(f) ==
    (IF f.color # 0 THEN <<ESCAPE_CHAR, f.color>> ELSE <<>>)
        \o (IF f.bolded THEN <<ESCAPE_CHAR, 108>> ELSE <<>>)
        \o (IF f.italicized THEN <<ESCAPE_CHAR, 111>> ELSE <<>>)
        \o (IF f.underlined THEN <<ESCAPE_CHAR, 110>> ELSE <<>>)
        \o (IF f.struck_through THEN <<ESCAPE_CHAR, 109>> ELSE <<>>)
        \o (IF f.obfuscated THEN <<ESCAPE_CHAR, 107>> ELSE <<>>)

RECURSIVE to_legacy_string(_), LegacyStrings(_)
LegacyStrings(texts) ==
    IF texts = <<>> THEN <<>>
    ELSE to_legacy_string(Head(texts)) \o LegacyStrings(Tail(texts))

to_legacy_string(text) ==
    CASE text.tag = "Sequential" -> LegacyStrings(text.children)
      [] text.tag = "Full" ->
            legacy_codes(text.formatting) \o text.string
                \o LegacyStrings(text.children)
      [] OTHER -> to_plain_string(text)

\* Display of a non-negative i32: its decimal digits.
RECURSIVE to_string(_)
to_string(n) ==
    IF n < 10 THEN <<48 + n>> ELSE Append(to_string(n \div 10), 48 + (n % 10))

\* Variant: the 1.4-1.6 form whatever the request.
legacy_response_modern_only(request, listing) ==
    <<ESCAPE_CHAR, 49, 0>> \o to_string(listing.version.value) \o <<0>>
        \o listing.version.name \o <<0>>
        \o to_legacy_string(listing.motd) \o <<0>>
        \o to_string(listing.players.current) \o <<0>>
        \o to_string(listing.players.max)

\* send_legacy_status_response: the response string for the request.
legacy_response(request, listing) ==
    IF request = <<>>
    THEN to_plain_string(listing.motd) \o <<ESCAPE_CHAR>>
            \o to_string(listing.players.current) \o <<ESCAPE_CHAR>>
            \o to_string(listing.players.max)
    ELSE <<ESCAPE_CHAR, 49, 0>> \o to_string(listing.version.value) \o <<0>>
            \o listing.version.name \o <<0>>
            \o to_legacy_string(listing.motd) \o <<0>>
            \o to_string(listing.players.current) \o <<0>>
            \o to_string(listing.players.max)

\* char::encode_utf16: one unit, or a surrogate pair above the basic plane.
Utf16Units(ch) ==
    IF ch < 65536 THEN <<ch>>
    ELSE <<55296 + ((ch - 65536) \div 1024), 56320 + ((ch - 65536) % 1024)>>

RECURSIVE Utf16Range(_, _, _)
Utf16Range(s, lo, hi) ==
    IF lo > hi THEN <<>>
    ELSE IF lo = hi THEN Utf16Units(s[lo])
    ELSE Utf16Range(s, lo, (lo + hi) \div 2)
            \o Utf16Range(s, ((lo + hi) \div 2) + 1, hi)

encode_utf16(string) == Utf16Range(string, 1, Len(string))

\* flat_map(u16::to_be_bytes)
to_be_bytes(units) ==
    [i \in 1..(2 * Len(units)) |->
        IF i % 2 = 1 THEN units[(i + 1) \div 2] \div 256
        ELSE units[i \div 2] % 256]

\* send_legacy_status_response: the bytes written for a response string, or
\* the error when its length does not fit in a u16.
legacy_frame(response) ==
    IF Len(response) > 65535 THEN [ok |-> FALSE, bytes |-> <<>>]
    ELSE [ok |-> TRUE,
          bytes |-> <<255, Len(response) \div 256, Len(response) % 256>>
                        \o to_be_bytes(encode_utf16(response))]

\* Server::listing and Server::legacy_listing.
Server_listing ==
    [version |-> [value |-> 761,
                  name |-> <<77, 105, 110, 101, 115, 116, 111, 100, 111, 110,
                             32, 49, 46, 49, 57, 46, 51>>],
     players |-> [current |-> 0, max |-> 1],
     motd |-> Text_full(<<77, 105, 110, 101, 115, 116, 111, 100, 111, 110, 33>>,
                        <<>>, [NoFormatting EXCEPT !.color = 57, !.bolded = TRUE])]

(***************************************************************************)
(* Codec runs: a value or a packet is written with the writers of          *)
(* packet_io.rs and net.rs and the bytes are read back with the readers;   *)
(* or bytes are delivered as they are and read.  The connection used to    *)
(* read a frame is a fresh one put in Play with the packet's envelope.     *)
(***************************************************************************)
I32Values ==
    { 0, 1, 2, 127, 128, 255, 300, 16383, 16384, 2097151, 2097152,
      268435455, 268435456, MaxI32, 0 - 1, 0 - 2, 0 - 128, 0 - 129,
      0 - 2097153, MinI32 + 1, MinI32 }

\* The 64-bit pattern of a value that fits in 32 bits (sign-extended).
Bits64(v) ==
    [k \in 1..64 |->
        IF k <= 31 THEN (v \div (2 ^ (k - 1))) % 2
        ELSE IF v < 0 THEN 1 ELSE 0]

OneBit(j) == [k \in 1..64 |-> IF k = j THEN 1 ELSE 0]

MaxI64 == [k \in 1..64 |-> IF k = 64 THEN 0 ELSE 1]
MinI64 == OneBit(64)

I64Values ==
    {Bits64(v) : v \in I32Values}
        \cup {OneBit(j) : j \in {32, 33, 36, 43, 50, 57, 63}}
        \cup {MaxI64, MinI64, [k \in 1..64 |-> IF k = 1 THEN 0 ELSE 1]}

\* Bytes that follow the VarInt in the buffer read.
Tails == {<<>>, <<255, 1>>}

Body(n) == [i \in 1..n |-> (i * 7) % 256]

BodyLens == {0, 1, 126, 127, 128, 253, 254, 255, 256, 300}

PacketIds == {0, 36, 761}

\* A short frame in the compressed envelope: the outer length, the data
\* length and the bytes that follow it.
RawFrame(data_len, bytes) == <<1 + Len(bytes), data_len>> \o bytes

\* Compressed frames as a peer may send them: data length 0; data length 2
\* with a stream of 2, of 1 and of 3 bytes; a stream with a wrong header.
RawFrames ==
    { <<3, 0, 7, 9>>,
      RawFrame(0, ZlibEncoder_finish(<<7, 9>>)),
      RawFrame(2, ZlibEncoder_finish(<<7, 9>>)),
      RawFrame(2, ZlibEncoder_finish(<<7>>)),
      RawFrame(2, ZlibEncoder_finish(<<7, 9, 9>>)),
      RawFrame(2, <<121, 7, 9, 17>>),
      RawFrame(1, <<>>) }

\* n bytes with the high bit set.
Continued(n, byte) == [i \in 1..n |-> byte]

MaxFed == 12

\* VarInt bytes as a peer may send them: only continuation bytes, and
\* continuation bytes closed by a last byte.
VarIntBytes ==
    {Continued(n, b) : n \in 1..MaxFed, b \in {128, 255}}
        \cup {Continued(n, 128) \o <<1>> : n \in 0..(MaxFed - 1)}

\* "Hello Minestodon", the string of the tests of packet_io.rs.
TEST_STRING == <<72, 101, 108, 108, 111, 32, 77, 105, 110, 101, 115, 116, 111, 100, 111, 110>>

\* n times the letter e with an acute accent (two bytes each).
Accented(n) == [i \in 1..(2 * n) |-> IF i % 2 = 1 THEN 195 ELSE 169]

\* Strings as UTF-8: the empty one, the test string, characters of two,
\* three and four bytes, and strings whose length needs a second byte.
Strings ==
    { <<>>, TEST_STRING, <<195, 169>>, <<226, 130, 172>>,
      <<240, 159, 152, 128>>, <<77, 240, 159, 152, 128, 195, 169>>,
      Continued(127, 65), Accented(64) }

\* A length prefix and bytes as a peer may send them: a negative length, a
\* length longer than the bytes, bytes that are not UTF-8, a good string.
Prefixed ==
    { write_var(0 - 1), write_var(0 - 1) \o <<65>>, write_var(MinI32) \o <<65>>,
      write_var(0 - 128) \o TEST_STRING, write_var(2) \o <<65>>,
      write_var(1) \o <<255>>, write_var(2) \o <<65, 66, 67>> }

\* What follows the 0xFE in the read: nothing for a client before 1.4, the
\* byte 0x01 and possibly the plugin message for a later one.
LegacyRequests == {<<>>, <<1>>, <<1, 250, 0, 11>>}

MaxChars == 65535

\* Listings: the one of the server; one whose MOTD and version name have a
\* char outside the basic plane; one with a nested MOTD; one whose MOTD is
\* too long for the length field.
Listings ==
    { Server_listing,
      [Server_listing EXCEPT !.motd = Text_from(<<72, 105, 32, 128512>>),
                             !.version.name = <<49, 46, 49, 57, 128640>>],
      [Server_listing EXCEPT
          !.players = [current |-> 19, max |-> 120],
          !.motd = Text_sequential(<<
              Text_from(<<>>),
              Text_full(<<65>>, <<Text_from(<<66>>)>>,
                        [NoFormatting EXCEPT !.color = 99, !.obfuscated = TRUE]),
              Text_full(<<67>>, <<>>, [NoFormatting EXCEPT !.italicized = TRUE,
                                                           !.underlined = TRUE,
                                                           !.struck_through = TRUE])>>)],
      [Server_listing EXCEPT !.motd = Text_from(Continued(MaxChars, 65))] }

\* A client of the legacy ping reading the response: the packet id, the
\* length field, and the chars of all the UTF-16BE bytes that follow.
decode_utf16(units) ==
    SelectSeq(
        [i \in 1..Len(units) |->
            IF units[i] \in 56320..57343 /\ i > 1 /\ units[i - 1] \in 55296..56319
            THEN 0 - 1
            ELSE IF units[i] \in 55296..56319 /\ i < Len(units)
                    /\ units[i + 1] \in 56320..57343
            THEN 65536 + ((units[i] - 55296) * 1024) + (units[i + 1] - 56320)
            ELSE units[i]],
        LAMBDA ch : ch >= 0)

from_be_bytes(bytes) ==
    [i \in 1..(Len(bytes) \div 2) |-> (bytes[(2 * i) - 1] * 256) + bytes[2 * i]]

LegacyRead(bytes) ==
    IF Len(bytes) < 3
    THEN [ok |-> FALSE, id |-> 0, len |-> 0, units |-> 0, string |-> <<>>]
    ELSE [ok |-> TRUE, id |-> bytes[1], len |-> read_u16(Drop(bytes, 1)).val,
          units |-> (Len(bytes) - 3) \div 2,
          string |-> decode_utf16(from_be_bytes(Drop(bytes, 3)))]

\* LoginStart packets as clients write them: protocol 760 puts the boolean
\* for the signature, and the signature, between the name and the boolean
\* for the UUID; protocol 761 has no signature.
Usernames == {<<78>>, <<78, 111, 116, 99, 104>>}

LoginStarts ==
    {in \in [kind : {"login"}, layout : {760, 761}, name : Usernames,
              signed : BOOLEAN, has_uuid : BOOLEAN] :
        in.layout = 761 => ~in.signed}

ClientUuid == [i \in 1..16 |-> 200 + i]

ClientSignature ==
    [i \in 1..8 |-> i] \o write_var(10) \o [i \in 1..10 |-> 100 + i]
        \o write_var(4) \o <<9, 8, 7, 6>>

LoginStartBody(in) ==
    write_str(in.name)
        \o (IF in.layout = 761 THEN <<>>
            ELSE IF in.signed THEN <<1>> \o ClientSignature ELSE <<0>>)
        \o (IF in.has_uuid THEN <<1>> \o ClientUuid ELSE <<0>>)

\* A frame in the plain envelope around a packet body (the id included).
Frame(body) == write_var(Len(body)) \o body

LoginStartOf(name) == Frame(<<0>> \o write_str(name) \o <<0>>)

HandshakeOf(server_addr, n) ==
    Frame(<<0>> \o write_var(761) \o write_str(server_addr) \o <<99, 221>>
              \o write_var(n))

\* What a client sends over the life of a connection, before the transport
\* splits it into reads: the status exchange; a login followed by a play
\* packet; a login; the legacy probes; names of 16 and of 17 chars; a
\* server address of 255 and of 256 chars; a frame of length 0 and a frame
\* of negative length before a status request.
Streams ==
    { HandshakeFrame(1) \o StatusRequestFrame \o PingRequestFrame,
      HandshakeFrame(2) \o LoginStartFrame \o PlayFrame,
      HandshakeFrame(2) \o LoginStartFrame,
      <<LEGACY_PING>>, <<LEGACY_PING, 1>>, <<LEGACY_PING, 1, 250>>,
      HandshakeFrame(2) \o LoginStartOf(Continued(16, 65)),
      HandshakeFrame(2) \o LoginStartOf(Continued(17, 65)),
      HandshakeOf(Continued(255, 97), 1),
      HandshakeOf(Continued(256, 97), 1),
      <<0>> \o HandshakeFrame(1) \o StatusRequestFrame,
      write_var(0 - 1) \o HandshakeFrame(1) \o StatusRequestFrame }

\* A stream of this length at most is also delivered one byte per read.
MaxSingles == 32

\* How the transport delivers the stream: cut in two reads after byte `at`;
\* for at = 0, one byte per read (a long stream: in one read).
Split(bytes, at) ==
    IF at > 0 THEN <<Take(bytes, at), Drop(bytes, at)>>
    ELSE IF Len(bytes) <= MaxSingles THEN [i \in 1..Len(bytes) |-> <<bytes[i]>>]
    ELSE <<bytes>>

StreamInputs ==
    UNION {{[kind |-> "stream", bytes |-> b, at |-> k] : k \in 0..(Len(b) - 1)} :
              b \in Streams}

\* The worker of a new connection served with these reads, one iteration of
\* the loop of User::run per read, until the loop ends.
RECURSIVE Serve(_, _, _, _)
Serve(s, reads, i, fresh) ==
    IF i > Len(reads) \/ s.worker # "running" THEN s
    ELSE Serve(User_run(s.c, s.t.connection, s.t.uuid,
                        [ok |-> TRUE, bytes |-> reads[i]], fresh),
               reads, i + 1, fresh)

\* User::new on connection c.
User_new(c) == Ran(U(c, "Connection", 0, "None", ""), c, "running")

Served(reads) == Serve(User_new(Conn), reads, 1, 1)

\* What can be seen of a served connection: the packets dispatched, the
\* state transitions, the writes, and where the connection and its worker
\* ended.
Observed(s) ==
    [packets |-> [i \in 1..Len(s.c.handled) |->
                    [st |-> s.c.handled[i].st, id |-> s.c.handled[i].id,
                     body |-> s.c.handled[i].buf]],
     transitions |-> s.c.transitions,
     sent |-> s.c.stream,
     state |-> s.c.state,
     compressed |-> s.c.compressed,
     uuid |-> s.t.uuid,
     connection |-> s.t.connection,
     worker |-> s.worker,
     last |-> s.last]

\* Bytes for the framer alone: frames of length 0, 1 and 2, a length prefix
\* of two bytes, negative lengths, the largest length.
FramerBytes ==
    { <<0>>, <<0, 1, 0>>, <<1, 0, 1, 0>>, <<2, 0, 7, 1, 0>>,
      write_var(128) \o <<1, 2, 3>>,
      write_var(0 - 1), write_var(0 - 1) \o <<1, 0>>,
      write_var(MinI32) \o <<1, 0>>, write_var(0 - 128) \o <<0>>,
      write_var(MaxI32) \o <<1, 0>> }

\* The PartialPacket after each byte, fed as Connection::tick feeds it: a
\* new PartialPacket when none is pending (at first, and after a Full),
\* nothing more after an error.
RECURSIVE Feed(_, _, _)
Feed(trace, bytes, i) ==
    IF i > Len(bytes) THEN trace
    ELSE IF trace # <<>> /\ trace[Len(trace)].tag = "Err" THEN trace
    ELSE Feed(Append(trace,
                PartialPacket_next(
                    IF trace = <<>> \/ trace[Len(trace)].tag = "Full"
                    THEN PartialPacket_new ELSE trace[Len(trace)],
                    bytes[i])),
              bytes, i + 1)

CodecInit ==
    /\ NewConnection
    /\ NoUsers
    /\ NoCalls
    /\ NoRegistry
    /\ writes_left = NoLimit
    /\ step = "input"
    /\ wire = <<>>
    /\ output = None
    /\ \/ input \in [kind : {"i32"}, val : I32Values, tail : Tails]
       \/ input \in [kind : {"i64"}, val : I64Values, tail : Tails]
       \/ input \in [kind : {"packet"}, is_compressed : BOOLEAN,
                      id : PacketIds, len : BodyLens]
       \/ input \in [kind : {"frame"}, is_compressed : {TRUE}, bytes : RawFrames]
       \/ input \in [kind : {"varint"}, wide : BOOLEAN, bytes : VarIntBytes]
       \/ input \in [kind : {"string"}, val : Strings, tail : Tails]
       \/ input \in [kind : {"prefixed"}, bytes : Prefixed]
       \/ input \in [kind : {"legacy"}, request : LegacyRequests,
                      listing : Listings]
       \/ input \in LoginStarts
       \/ input \in StreamInputs
       \/ input \in [kind : {"feed"}, bytes : FramerBytes]

\* The writer for the input.
Encoded(in) ==
    CASE in.kind = "i32" -> write_var(in.val)
      [] in.kind = "i64" -> write_var_i64(in.val)
      [] in.kind = "string" -> write_str(in.val)
      [] in.kind = "legacy" ->
            legacy_frame(legacy_response(in.request, in.listing)).bytes
      [] in.kind = "login" -> LoginStartBody(in)
      [] OTHER -> send_packet_frame(in.is_compressed, in.id, Body(in.len))

\* A connection in Play that reads frames in the given envelope.
Reader(is_compressed) ==
    [Conn EXCEPT !.state = "Play", !.compressed = is_compressed,
                 !.definitely_modern = TRUE]

\* What one tick over the bytes gives: its result, the packets dispatched
\* and the partial packet left pending.
Framed(r) ==
    [res |-> r.res, err |-> r.err, pending |-> r.c.packet,
     packets |-> [i \in 1..Len(r.c.handled) |->
                    [id |-> r.c.handled[i].id, body |-> r.c.handled[i].buf]]]

\* The reader for the input.
Decoding(in, bytes) ==
    CASE in.kind = "i32" -> read_var(bytes \o in.tail)
      [] in.kind = "i64" -> read_var_i64(bytes \o in.tail)
      [] in.kind = "varint" -> ReadVarTags(in.wide, <<>>, bytes)
      [] in.kind = "string" -> read_string(bytes \o in.tail)
      [] in.kind = "prefixed" -> read_string(bytes)
      [] in.kind = "legacy" -> LegacyRead(bytes)
      [] in.kind = "login" ->
            [now |-> LoginStart_fields(bytes),
             before |-> LoginStart_fields_signed(bytes)]
      [] in.kind = "stream" ->
            [whole |-> Observed(Served(<<bytes>>)),
             split |-> Observed(Served(Split(bytes, in.at)))]
      [] in.kind = "feed" ->
            [trace |-> Feed(<<>>, bytes, 1),
             tick |-> Framed(tick(Conn, [ok |-> TRUE, bytes |-> bytes]))]
      [] OTHER -> Framed(tick(Reader(in.is_compressed), [ok |-> TRUE, bytes |-> bytes]))

Encode ==
    /\ step = "input"
    /\ input.kind \in {"i32", "i64", "packet", "string", "legacy", "login"}
    /\ wire' = Encoded(input)
    /\ step' = "wire"
    /\ UNCHANGED <<input, output>>
    /\ UNCHANGED conn_vars
    /\ UNCHANGED server_vars
    /\ UNCHANGED registry_vars
    /\ UNCHANGED users

Deliver ==
    /\ step = "input"
    /\ input.kind \in {"frame", "varint", "prefixed", "stream", "feed"}
    /\ wire' = input.bytes
    /\ step' = "wire"
    /\ UNCHANGED <<input, output>>
    /\ UNCHANGED conn_vars
    /\ UNCHANGED server_vars
    /\ UNCHANGED registry_vars
    /\ UNCHANGED users

Decode ==
    /\ step = "wire"
    /\ output' = Decoding(input, wire)
    /\ step' = "output"
    /\ UNCHANGED <<input, wire>>
    /\ UNCHANGED conn_vars
    /\ UNCHANGED server_vars
    /\ UNCHANGED registry_vars
    /\ UNCHANGED users

CodecNext == Encode \/ Deliver \/ Decode

CodecSpec == CodecInit /\ [][CodecNext]_vars

(***************************************************************************)
(* server.rs: several connections served at once.  Server::tick spawns a   *)
(* thread per accepted stream; each thread runs User::run on its own       *)
(* Connection and a clone of the Server, so what the threads share is the  *)
(* counter of the server and its lock.  A step is one iteration of the     *)
(* loop of one User; the call of next_entity_id inside it is atomic, as    *)
(* the write lock is held from the read of the counter to its update.      *)
(***************************************************************************)
MaxUsers == 2
MaxReads == 3

Users == 1..MaxUsers

\* What the read of a User returns: a Handshake for Login, a LoginStart, a
\* frame that is an error in every state, or the end of the stream.
PairReads == {HandshakeFrame(2), LoginStartFrame, UnknownIdFrame, <<>>}

\* The connection with the server that its User holds a clone of.
Shared(c) ==
    [c EXCEPT !.next_entity_id = next_entity_id, !.lock = lock,
              !.overflow_checks = overflow_checks]

\* The connection alone.
Own(c) ==
    [c EXCEPT !.next_entity_id = 0, !.lock = Unlocked, !.overflow_checks = FALSE]

StoreUser(u, r, bytes) ==
    /\ users' = [users EXCEPT ![u] =
                    [c |-> Own(r.c), connection |-> r.t.connection,
                     uuid |-> r.t.uuid, worker |-> r.worker, last |-> r.last,
                     received |-> Append(users[u].received, bytes)]]
    /\ next_entity_id' = r.c.next_entity_id
    /\ lock' = r.c.lock
    /\ UNCHANGED <<threads, overflow_checks, entity_ids>>
    /\ UNCHANGED worker_vars
    /\ UNCHANGED codec_vars
    /\ UNCHANGED registry_vars

\* One iteration of the loop of User::run in the thread of user u.
UserRunOf(u) ==
    /\ users[u].worker = "running"
    /\ Len(users[u].received) < MaxReads
    /\ \E bytes \in PairReads :
          StoreUser(u, User_run(Shared(users[u].c), users[u].connection,
                                users[u].uuid, [ok |-> TRUE, bytes |-> bytes], u),
                    bytes)

\* Server::tick has accepted MaxUsers streams and spawned their threads.
PairInit ==
    /\ NoConnection
    /\ NoCodec
    /\ NoRegistry
    /\ lock = Unlocked
    /\ threads = [t \in Threads |-> [pc |-> "idle", next |-> 0, calls |-> 0]]
    /\ overflow_checks \in BOOLEAN
    /\ next_entity_id \in FirstIds
    /\ entity_ids = [first |-> next_entity_id, returned |-> <<>>]
    /\ users = [u \in Users |->
                  [c |-> Own(Conn), connection |-> "Connection", uuid |-> 0,
                   worker |-> "running", last |-> NoTick, received |-> <<>>]]

PairNext == \E u \in Users : UserRunOf(u)

PairSpec == PairInit /\ [][PairNext]_vars

(***************************************************************************)
(* Properties.                                                             *)
(***************************************************************************)
Forward == {<<"Handshake", "Status">>, <<"Handshake", "Login">>, <<"Login", "Play">>}

Names(log) == {log[i].name : i \in 1..Len(log)}

\* C1: the connection state only moves forward.  Every assignment to the
\* state is one of Handshake->Status, Handshake->Login, Login->Play, the
\* assignments form a chain starting at Handshake and ending at the current
\* state, whatever bytes arrive (a second Handshake included).
C1_ForwardOnly ==
    /\ \A i \in 1..Len(transitions) : transitions[i] \in Forward
    /\ \A i \in 1..Len(transitions) :
          transitions[i][1] = IF i = 1 THEN "Handshake" ELSE transitions[i - 1][2]
    /\ state = IF transitions = <<>> THEN "Handshake"
               ELSE transitions[Len(transitions)][2]

\* A Handshake frame was dispatched again after the connection reached Play.
C1_Witness ==
    /\ state = "Play"
    /\ \E i \in 1..Len(handled) : handled[i].st = "Play" /\ handled[i].id = 761

\* C2: nothing but a legacy ping response is written while the state is
\* Handshake, whether the tick succeeds or fails.
C2_HandshakeSilent ==
    \A i \in 1..Len(stream) :
        stream[i].st = "Handshake" => stream[i].kind = "legacy"

\* A tick failed in Handshake with the stream still writable.
C2_Witness ==
    /\ last.res = "Err"
    /\ last.st = "Handshake"
    /\ worker = "closed"
    /\ writes_left # 0
    /\ stream = <<>>

SetCompressionAt(n) ==
    \E j \in 1..n : j <= Len(stream) /\ stream[j].name = "SetCompression"

C3_Envelopes ==
    /\ compressed = SetCompressionAt(Len(stream))
    /\ \A i \in 1..Len(stream) :
          stream[i].kind = "packet" =>
             (stream[i].envelope = "compressed") = SetCompressionAt(i - 1)
    /\ \A i \in 1..Len(handled) :
          (handled[i].envelope = "compressed") = SetCompressionAt(handled[i].sent)

\* C3: compressed starts false, becomes true right after SetCompression was
\* written in the plain envelope and is never reset; every packet written
\* and every frame dispatched after that point uses the compressed envelope
\* and every one before it the plain envelope.
C3_CompressedOnce ==
    /\ (~compressed)
    /\ []C3_Envelopes
    /\ [][compressed => compressed']_vars

\* Packets went both ways in the compressed envelope.
C3_Witness ==
    /\ compressed
    /\ \E i \in 1..Len(stream) : stream[i].envelope = "compressed"
    /\ \E i \in 1..Len(handled) : handled[i].envelope = "compressed"

HandOff ==
    << [name |-> "SetCompression", st |-> "Login", envelope |-> "plain"],
       [name |-> "LoginSuccess", st |-> "Login", envelope |-> "compressed"],
       [name |-> "PlayLogin", st |-> "Play", envelope |-> "compressed"],
       [name |-> "PluginMessage", st |-> "Play", envelope |-> "compressed"] >>

HandOffNames == {HandOff[k].name : k \in 1..Len(HandOff)}

\* stream[p..i] is the beginning of the hand-off sequence.
HandOffRun(p, i) ==
    /\ i - p + 1 <= Len(HandOff)
    /\ \A j \in p..i :
          /\ stream[j].name = HandOff[j - p + 1].name
          /\ stream[j].st = HandOff[j - p + 1].st
          /\ stream[j].envelope = HandOff[j - p + 1].envelope

\* C4: the hand-off after an accepted LoginStart writes SetCompression,
\* LoginSuccess{uuid, name}, PlayLogin, PluginMessage in this order with
\* nothing in between, the compressed flag set after the first and the state
\* set to Play after the second; a Play packet is never written before the
\* state is Play nor LoginSuccess before SetCompression.  A write that fails
\* cuts the sequence short; the player exists once all four are written.
C4_HandOffOrder ==
    /\ \A i \in 1..Len(stream) :
          stream[i].name \in HandOffNames => \E p \in 1..i : HandOffRun(p, i)
    /\ \A i \in 1..Len(stream) :
          /\ stream[i].name = "SetCompression" =>
                \E h \in 1..Len(handled) :
                    /\ handled[h].st = "Login" /\ handled[h].id = 0
                    /\ handled[h].sent = i - 1
          /\ stream[i].name = "LoginSuccess" => stream[i].arg[1] = uuid
          /\ stream[i].st = "Play" => stream[i].name \in {"PlayLogin", "PluginMessage"}
    /\ connection = "Player" =>
          /\ Len(stream) >= Len(HandOff)
          /\ HandOffRun(Len(stream) - Len(HandOff) + 1, Len(stream))
          /\ state = "Play" /\ compressed

\* The hand-off ran to its end.
C4_Witness ==
    /\ connection = "Player"
    /\ state = "Play"
    /\ Len(stream) = Len(HandOff)

LegacySent == \E i \in 1..Len(stream) : stream[i].kind = "legacy"

FirstByte ==
    IF received = <<>> \/ received[1] = <<>> THEN 0 - 1 ELSE received[1][1]

\* C5: a legacy response is written exactly when the first byte ever
\* received is 0xFE (and the write succeeds); the rest of that read selects
\* the form of the response, the tick returns Close and no packet is framed
\* or dispatched.  A 0xFE met later is framed as data.
C5_LegacyProbe ==
    /\ LegacySent =>
          /\ FirstByte = LEGACY_PING
          /\ stream = << [kind |-> "legacy", name |-> "LegacyStatusResponse",
                          id |-> 255, st |-> "Handshake", envelope |-> "legacy",
                          arg |-> <<IF Len(received[1]) = 1 THEN 1 ELSE 2>>] >>
          /\ Len(received) = 1
          /\ handled = <<>>
          /\ packet = None
          /\ ~definitely_modern
          /\ last.res = "Close"
          /\ worker = "closed"
    /\ (FirstByte = LEGACY_PING /\ (stream # <<>> \/ writes_left # 0)) => LegacySent

\* A probe followed by more bytes in the same read was answered.
C5_Witness ==
    /\ LegacySent
    /\ Len(received[1]) > 1
    /\ worker = "closed"

TestIds == {0 - 1, 0, 1, 2, 3, 36, 254, 255}

HandshakeFields == <<249, 5, 1, 120, 99, 221>>

TestBodies ==
    { <<>>, HandshakeFields \o <<1>>, <<1, 250>>, PingPayload, <<1, 78, 0>> }

Rejected(r) == r.res = "Err" /\ r.err = "InvalidPacketId"

Untouched(r) ==
    /\ r.c.state = state
    /\ r.c.compressed = compressed
    /\ r.c.stream = stream

\* The ids the specification documents for each state.
Documented(st) ==
    CASE st = "Handshake" -> {0}
      [] st = "Status" -> {0, 1}
      [] st = "Login" -> {0}
      [] OTHER -> {}

\* The ids each state's decoder takes; in Play every id is taken.
Accepted(st) ==
    CASE st = "Handshake" -> {0, 254}
      [] st = "Status" -> {0, 1}
      [] st = "Login" -> {0}
      [] OTHER -> TestIds

\* C6 as stated: in every state the ids accepted are exactly the documented
\* ones (none in Play) and every other id fails as an unknown packet id
\* leaving state, compressed and the stream as they were.
C6_DocumentedIds ==
    \A id \in TestIds, b \in TestBodies :
        Then(decode_and_handle_packet(Conn, id, b), LAMBDA r :
            /\ (id \notin Documented(state)) = Rejected(r)
            /\ Rejected(r) => Untouched(r))

\* C6, amended: the ids accepted are {0x00, 0xFE} in Handshake, {0x00, 0x01}
\* in Status, {0x00} in Login and every id in Play; an id outside the set of
\* its state fails as an invalid packet id leaving state, compressed and the
\* stream as they were.
C6_AcceptedIds ==
    \A id \in TestIds, b \in TestBodies :
        Then(decode_and_handle_packet(Conn, id, b), LAMBDA r :
            /\ (id \notin Accepted(state)) = Rejected(r)
            /\ Rejected(r) => Untouched(r))

\* Id 0xFE was taken in Handshake and a later tick failed on an unknown id.
C6_Witness ==
    /\ \E i \in 1..Len(handled) : handled[i].st = "Handshake" /\ handled[i].id = 254
    /\ last.err = "InvalidPacketId"
    /\ Len(handled) >= 2

\* next_state values with their VarInt encodings.
NextStateCases ==
    { [n |-> 0, bytes |-> <<0>>], [n |-> 1, bytes |-> <<1>>],
      [n |-> 2, bytes |-> <<2>>], [n |-> 3, bytes |-> <<3>>],
      [n |-> 127, bytes |-> <<127>>], [n |-> 128, bytes |-> <<128, 1>>],
      [n |-> 0 - 1, bytes |-> <<255, 255, 255, 255, 15>>] }

\* C7: a Handshake packet with next_state 1 sets the state to Status, with
\* next_state 2 to Login; any other next_state fails to decode and leaves
\* the state Handshake; in no case is anything written.
C7_HandshakeNextState ==
    /\ state = "Handshake" =>
          \A x \in NextStateCases :
              Then(decode_and_handle_packet(Conn, 0, HandshakeFields \o x.bytes),
                   LAMBDA r :
                  /\ r.c.stream = stream
                  /\ r.c.compressed = compressed
                  /\ x.n = 1 => r.res = "DoNothing" /\ r.c.state = "Status"
                  /\ x.n = 2 => r.res = "DoNothing" /\ r.c.state = "Login"
                  /\ x.n \notin {1, 2} =>
                        /\ r.res = "Err" /\ r.err = "InvalidNextState"
                        /\ r.c.state = "Handshake")
    /\ \A n \in 1..3 :
          received = <<HandshakeFrame(n)>> =>
              /\ stream = <<>>
              /\ n = 1 => state = "Status" /\ last.res = "DoNothing"
              /\ n = 2 => state = "Login" /\ last.res = "DoNothing"
              /\ n = 3 => state = "Handshake" /\ last.err = "InvalidNextState"

\* A Handshake with next_state 2 was handled.
C7_Witness ==
    /\ received = <<HandshakeFrame(2)>>
    /\ state = "Login"
    /\ worker = "running"

StatusResponse(c) == Written(c, "packet", "StatusResponse", 0, Listing)

\* C8: a StatusRequest in Status writes exactly one StatusResponse carrying
\* the listing and leaves state, compressed and the partial packet as they
\* were; the action is DoNothing, so further requests are answered too.
C8_StatusRequest ==
    /\ (state = "Status" /\ CanWrite(Conn)) =>
          Then(decode_and_handle_packet(Conn, 0, <<>>), LAMBDA r :
              /\ r.res = "DoNothing"
              /\ r.c.stream = Append(stream, StatusResponse(Conn))
              /\ r.c.state = "Status"
              /\ r.c.compressed = compressed
              /\ r.c.packet = packet)
    /\ \A h \in 1..Len(handled) :
          (handled[h].st = "Status" /\ handled[h].id = 0 /\ writes_left # 0) =>
              /\ Len(stream) > handled[h].sent
              /\ stream[handled[h].sent + 1].name = "StatusResponse"
              /\ stream[handled[h].sent + 1].arg = Listing
              /\ (h < Len(handled) => handled[h + 1].sent = handled[h].sent + 1)

\* Two StatusRequests were answered and the worker goes on.
C8_Witness ==
    /\ state = "Status"
    /\ worker = "running"
    /\ \E i \in 1..Len(stream) :
          /\ i < Len(stream)
          /\ stream[i].name = "StatusResponse"
          /\ stream[i + 1].name = "StatusResponse"

Answered(h) ==
    /\ handled[h].st = "Status"
    /\ handled[h].id = 1
    /\ Len(stream) > handled[h].sent
    /\ stream[handled[h].sent + 1].name = "PingResponse"

\* C9 as stated: a PingRequest in Status is answered by one PingResponse
\* with the same payload and the connection is closed: the tick returns
\* Close, the worker exits and no later packet is dispatched.
C9_PingCloses ==
    \A h \in 1..Len(handled) :
        Answered(h) =>
            /\ stream[handled[h].sent + 1].arg = PingPayload
            /\ h = Len(handled)
            /\ last.res = "Close"
            /\ worker = "closed"

\* C10 as stated: a tick that fails in Login or Play is followed by a kick
\* written to the peer (when the stream can be written) and the worker
\* exits without a panic.
C10_ErrorKick ==
    (last.res = "Err" /\ last.st \in {"Login", "Play"}) =>
        /\ worker = "closed"
        /\ writes_left # 0 =>
              /\ stream # <<>>
              /\ stream[Len(stream)].name = "LoginDisconnect"

EndOfFile == [ok |-> TRUE, bytes |-> <<>>]

Reason == <<"reason">>

\* C11: a tick that fails while the state is Handshake or Status is followed
\* by no write at all: the kick is refused, the worker leaves its loop and
\* the stream holds what it held when the tick failed.
C11_SilentClose ==
    /\ (last.res = "Err" /\ last.st \in {"Handshake", "Status"}) =>
          /\ worker = "closed"
          /\ \A i \in 1..Len(stream) : stream[i].name # "LoginDisconnect"
    /\ state \in {"Handshake", "Status"} =>
          Then(send_error_kick(Conn, Reason), LAMBDA kick :
              kick.res = "Err" /\ kick.c.stream = stream)
    /\ worker = "running" =>
          \A rd \in {[ok |-> FALSE, bytes |-> <<>>], [ok |-> TRUE, bytes |-> UnknownIdFrame]} :
              Then(User_run(Conn, connection, uuid, rd, 1), LAMBDA r :
                  (r.last.res = "Err" /\ r.last.st \in {"Handshake", "Status"}) =>
                      r.c.stream = stream /\ r.worker = "closed")

\* A tick failed in Status on a stream that could still be written.
C11_Witness ==
    /\ last.res = "Err"
    /\ last.st = "Status"
    /\ worker = "closed"
    /\ writes_left = NoLimit
    /\ stream # <<>>

\* C12: send_kick fails and writes nothing in Handshake and Status; in Login
\* it writes exactly one LoginDisconnect (id 0x00) carrying the reason and
\* succeeds; neither send_kick nor send_error_kick changes state, compressed
\* or the pending partial packet in any state.
C12_KickByState ==
    /\ Then(send_kick(Conn, Reason), LAMBDA r :
          /\ r.c.state = state /\ r.c.compressed = compressed /\ r.c.packet = packet
          /\ state \in {"Handshake", "Status"} =>
                r.res = "Err" /\ r.c.stream = stream
          /\ (state = "Login" /\ CanWrite(Conn)) =>
                /\ r.res = "DoNothing"
                /\ r.c.stream =
                      Append(stream, Written(Conn, "packet", "LoginDisconnect", 0, Reason)))
    /\ Then(send_error_kick(Conn, Reason), LAMBDA r :
          /\ r.c.state = state /\ r.c.compressed = compressed /\ r.c.packet = packet
          /\ state \in {"Handshake", "Status"} => r.c.stream = stream)

\* A kick was written in Login while a partial packet was pending before.
C12_Witness ==
    /\ last.res = "Err"
    /\ last.st = "Login"
    /\ worker = "closed"
    /\ stream # <<>>
    /\ stream[Len(stream)].name = "LoginDisconnect"
    /\ stream[Len(stream)].id = 0

\* C13: the worker loop ends with the first tick that returns Close or an
\* error: after it no read is made and nothing is written; and once the peer
\* has closed the socket the worker leaves its loop.
C13_LoopStops ==
    /\ [][(ticks' # ticks /\ last'.res \in {"Close", "Err"}) => worker' # "running"]_vars
    /\ [][worker # "running" =>
            (ticks' = ticks /\ received' = received /\ stream' = stream
                /\ handled' = handled)]_vars
    /\ (peer_closed ~> worker # "running")

\* The peer closed after some traffic and the worker met the end of file.
C13_Witness ==
    /\ peer_closed
    /\ worker = "closed"
    /\ last.res = "Close"
    /\ ticks >= 2
    /\ stream # <<>>

\* C14: a read of zero bytes makes tick return Close, in every state, with
\* nothing written and state, compressed, definitely_modern and the pending
\* partial packet left as they were.
C14_EndOfFile ==
    /\ []Then(tick(Conn, EndOfFile), LAMBDA r : r.res = "Close" /\ r.c = Conn)
    /\ [][(received' = Append(received, <<>>) /\ last'.res # "Err") =>
            /\ last'.res = "Close"
            /\ worker' = "closed"
            /\ stream' = stream
            /\ state' = state
            /\ compressed' = compressed
            /\ definitely_modern' = definitely_modern
            /\ packet' = packet]_vars

\* The end of file was met with half a frame pending.
C14_Witness ==
    /\ last.res = "Close"
    /\ worker = "closed"
    /\ packet # None
    /\ received[Len(received)] = <<>>

\* Reads holding several whole frames.
Batches ==
    { <<StatusRequestFrame>>,
      <<StatusRequestFrame, PingRequestFrame, StatusRequestFrame>>,
      <<HandshakeFrame(1), StatusRequestFrame>>,
      <<HandshakeFrame(1), HandshakeFrame(1)>>,
      <<HandshakeFrame(3), StatusRequestFrame>>,
      <<HandshakeFrame(2), LoginStartFrame, PlayFrame>>,
      <<LoginStartFrame, LoginStartFrame>>,
      <<UnknownIdFrame, StatusRequestFrame>>,
      <<PlayFrame, ZlibFrame, PlayFrame>> }

RECURSIVE Concat(_)
Concat(frames) ==
    IF frames = <<>> THEN <<>> ELSE Head(frames) \o Concat(Tail(frames))

\* The frames handled one after the other, up to the first result that is
\* not DoNothing.  Each frame here has a one-byte length prefix.
RECURSIVE InOrder(_, _, _)
InOrder(c, frames, k) ==
    IF k > Len(frames) THEN DoNothing(c)
    ELSE Then(OnFull(c, Tail(frames[k])), LAMBDA r :
            IF r.res # "DoNothing" THEN r ELSE InOrder(r.c, frames, k + 1))

Outcome(r) ==
    <<r.res, r.err, r.name, r.c.state, r.c.compressed, r.c.handled, r.c.stream>>

Data(in) == write_var(in.id) \o Body(in.len)

\* C16: send_packet chooses the envelope from the compressed flag and the
\* length n of the packet id and body: plain is varint(n), data; compressed
\* with n < 256 is the outer length, varint(0), data verbatim; compressed
\* with n >= 256 is the outer length, varint(n), the zlib stream of data.
\* The outer length is the number of bytes that follow it.
C16_Envelope ==
    (step # "input" /\ input.kind = "packet") =>
        Then(read_var(wire), LAMBDA outer :
            /\ outer.ok
            /\ outer.val = Len(outer.rest)
            /\ ~input.is_compressed => outer.rest = Data(input)
            /\ (input.is_compressed /\ Len(Data(input)) < 256) =>
                  outer.rest = <<0>> \o Data(input)
            /\ (input.is_compressed /\ Len(Data(input)) >= 256) =>
                  Then(read_var(outer.rest), LAMBDA inner :
                      /\ inner.ok
                      /\ inner.val = Len(Data(input))
                      /\ inner.rest = ZlibEncoder_finish(Data(input))))

\* A packet of exactly 256 bytes was written in the compressed envelope.
C16_Witness ==
    /\ step = "wire"
    /\ input.kind = "packet"
    /\ input.is_compressed
    /\ Len(Data(input)) = 256
    /\ wire[3] = 128 /\ wire[4] = 2
    /\ wire[5] = ZLIB_HEADER

\* C17: the bytes send_packet writes, fed byte by byte to PartialPacket::next
\* and unframed by tick with the same compressed flag, give exactly one
\* packet with the id and body written, with no byte left over and no
\* partial packet pending, below, at and above the threshold.
C17_FrameRoundTrip ==
    (step = "output" /\ input.kind = "packet") =>
        output = [res |-> "DoNothing", err |-> "", pending |-> None,
                  packets |-> << [id |-> input.id, body |-> Body(input.len)] >>]

\* A packet above the threshold came back from its zlib stream.
C17_Witness ==
    /\ step = "output"
    /\ input.kind = "packet"
    /\ input.is_compressed
    /\ input.len = 300
    /\ Len(output.packets) = 1
    /\ Len(output.packets[1].body) = 300

\* Everything the zlib stream holds, decompressed to its end.
Inflate(zstream) ==
    IF Len(zstream) < 2 \/ zstream[1] # ZLIB_HEADER THEN Fail
    ELSE Ok(SubSeq(zstream, 2, Len(zstream) - 1), <<>>)

\* The packet in the data of a frame.
PacketIn(data) ==
    Then(read_var(data), LAMBDA id : [id |-> id.val, body |-> id.rest])

\* C18 as stated: in the compressed envelope a frame with data length 0 is
\* taken verbatim, and a frame with data length L > 0 is accepted only when
\* its zlib stream decompresses to exactly L bytes; a stream of fewer or of
\* more bytes makes the tick fail with no packet dispatched.
C18_ExactLength ==
    (step = "output" /\ input.kind = "frame") =>
        Then(read_var(Tail(input.bytes)), LAMBDA len :
            /\ len.val = 0 =>
                  /\ output.res = "DoNothing"
                  /\ output.packets = <<PacketIn(len.rest)>>
            /\ len.val > 0 =>
                  Then(Inflate(len.rest), LAMBDA all :
                      IF all.ok /\ Len(all.val) = len.val
                      THEN /\ output.res = "DoNothing"
                           /\ output.packets = <<PacketIn(all.val)>>
                      ELSE /\ output.res = "Err"
                           /\ output.packets = <<>>))

\* C19: a VarInt written by write_var is read back by read_var as the same
\* value, for i32 in at most 5 bytes and for i64 in at most 10, and read_var
\* consumes exactly the bytes written, leaving what follows them.
C19_VarIntRoundTrip ==
    /\ (step = "output" /\ input.kind = "i32") =>
          /\ output = Ok(input.val, input.tail)
          /\ Len(wire) <= MAX_VAR_LEN
    /\ (step = "output" /\ input.kind = "i64") =>
          /\ output = Ok(input.val, input.tail)
          /\ Len(wire) <= MAX_VAR_LEN_I64

\* i64::MIN came back, with bytes following it in the buffer.
C19_Witness ==
    /\ step = "output"
    /\ input.kind = "i64"
    /\ input.val = MinI64
    /\ input.tail # <<>>
    /\ Len(wire) = MAX_VAR_LEN_I64
    /\ output.ok

\* Group i (from 1) of the bit pattern of an i32 and of an i64.
Group(v, i) == IF i = 1 THEN v % 128 ELSE unsigned_shr(v, 7 * (i - 1)) % 128
Group_i64(v, i) == LowSeven_i64(unsigned_shr_i64(v, 7 * (i - 1)))

\* Unsigned LEB128: group i of the value in byte i, the high bit set on
\* every byte but the last, and no zero group at the end.
Leb128(bytes, v, I(_, _)) ==
    /\ \A i \in 1..Len(bytes) :
          /\ bytes[i] % 128 = I(v, i)
          /\ (bytes[i] >= 128) = (i < Len(bytes))
    /\ Len(bytes) > 1 => bytes[Len(bytes)] # 0

\* C20: the wire form of a VarInt is the unsigned LEB128 encoding of the
\* two's-complement pattern, least significant group first: 0 is 00,
\* i32::MAX is FF FF FF FF 07, i32::MIN is 80 80 80 80 08, i64::MAX is eight
\* FF then 7F, i64::MIN is nine 80 then 01; a negative i32 takes 5 bytes and
\* a negative i64 takes 10; read_var ORs the groups back together.
C20_WireForm ==
    /\ (step # "input" /\ input.kind = "i32") =>
          /\ Leb128(wire, input.val, Group)
          /\ input.val = 0 => wire = <<0>>
          /\ input.val = MaxI32 => wire = <<255, 255, 255, 255, 7>>
          /\ input.val = MinI32 => wire = <<128, 128, 128, 128, 8>>
          /\ input.val < 0 => Len(wire) = 5
    /\ (step # "input" /\ input.kind = "i64") =>
          /\ Leb128(wire, input.val, Group_i64)
          /\ input.val = Zero_i64 => wire = <<0>>
          /\ input.val = MaxI64 => wire = [i \in 1..9 |-> IF i < 9 THEN 255 ELSE 127]
          /\ input.val = MinI64 => wire = [i \in 1..10 |-> IF i < 10 THEN 128 ELSE 1]
          /\ input.val[64] = 1 => Len(wire) = 10
    /\ read_var(<<255, 255, 255, 255, 7>>) = Ok(MaxI32, <<>>)
    /\ read_var(<<128, 128, 128, 128, 8>>) = Ok(MinI32, <<>>)
    /\ read_var_i64([i \in 1..9 |-> IF i < 9 THEN 255 ELSE 127]) = Ok(MaxI64, <<>>)
    /\ read_var_i64([i \in 1..10 |-> IF i < 10 THEN 128 ELSE 1]) = Ok(MinI64, <<>>)

\* i32::MIN was written.
C20_Witness ==
    /\ step = "wire"
    /\ input.kind = "i32"
    /\ input.val = MinI32
    /\ wire = <<128, 128, 128, 128, 8>>

(***************************************************************************)
(* C21 (as the code has it).  A VarInt decoder fed bytes that all have the *)
(* high bit set answers Partial to each of the first MAX_VAR_LEN - 1 bytes *)
(* and fails on byte MAX_VAR_LEN (the fifth for i32, the tenth for i64);   *)
(* no encoding of more than MAX_VAR_LEN bytes is accepted: Full is only    *)
(* ever answered to one of the first MAX_VAR_LEN bytes.                    *)
(***************************************************************************)
AllContinued(bytes) == \A i \in 1..Len(bytes) : bytes[i] >= 128

MaxVarLen(wide) == IF wide THEN MAX_VAR_LEN_I64 ELSE MAX_VAR_LEN

C21_OverLength ==
    (step = "output" /\ input.kind = "varint") =>
        LET max == MaxVarLen(input.wide)
            n == Len(input.bytes)
        IN  /\ \A i \in 1..Len(output) : output[i] = "Full" => i <= max
            /\ AllContinued(input.bytes) =>
                  /\ Len(output) = IF n < max THEN n ELSE max
                  /\ \A i \in 1..Len(output) :
                        output[i] = IF i < max THEN "Partial" ELSE "Err"

\* Six continuation bytes were fed to the i32 decoder, eleven to the i64 one.
C21_Witness ==
    /\ step = "output"
    /\ input.kind = "varint"
    /\ AllContinued(input.bytes)
    /\ Len(input.bytes) = MaxVarLen(input.wide) + 1
    /\ output[MaxVarLen(input.wide)] = "Err"

\* C21 as stated: Partial after each of the first five (ten) bytes, the
\* error on the sixth (eleventh).
C21_SixthByte ==
    (step = "output" /\ input.kind = "varint"
        /\ AllContinued(input.bytes)
        /\ Len(input.bytes) > MaxVarLen(input.wide)) =>
        /\ Len(output) = MaxVarLen(input.wide) + 1
        /\ \A i \in 1..MaxVarLen(input.wide) : output[i] = "Partial"
        /\ output[MaxVarLen(input.wide) + 1] = "Err"

(***************************************************************************)
(* C22.  For every string s, write_str(s) is the VarInt of the number of   *)
(* bytes of s followed by those bytes; read_string on them returns s and   *)
(* leaves exactly what followed them in the buffer; a length prefix that   *)
(* decodes to a negative integer makes read_string fail.                   *)
(***************************************************************************)
C22_StringRoundTrip ==
    /\ (step = "output" /\ input.kind = "string") =>
          /\ read_var(wire) = Ok(Len(input.val), input.val)
          /\ wire = write_var(Len(input.val)) \o input.val
          /\ output = Ok(input.val, input.tail)
    /\ (step = "output" /\ input.kind = "prefixed") =>
          Then(read_var(wire), LAMBDA len :
              /\ len.ok
              /\ len.val < 0 => ~output.ok
              /\ output.ok =>
                    /\ output.val = Take(len.rest, len.val)
                    /\ output.rest = Drop(len.rest, len.val))

\* A string with characters of several bytes and a two-byte length was
\* read back, with bytes left after it.
C22_Witness ==
    /\ step = "output"
    /\ input.kind = "string"
    /\ Len(input.val) = 128
    /\ Len(wire) = 130
    /\ input.tail # <<>>
    /\ output = Ok(input.val, input.tail)

(***************************************************************************)
(* C23.  The payload of the legacy response is, when nothing follows the   *)
(* 0xFE in the read, the plain MOTD, the escape char, the current players, *)
(* the escape char and the maximum; when at least one byte follows, the    *)
(* escape char and 1, then after a NUL each: the protocol number, the      *)
(* version name, the MOTD with its legacy codes, the current players and   *)
(* the maximum.  One response in one of the two forms is written.          *)
(***************************************************************************)
Nul == <<0>>

PlainMotd(listing) == to_plain_string(listing.motd)

Pre14(listing) ==
    PlainMotd(listing) \o <<ESCAPE_CHAR>> \o to_string(listing.players.current)
        \o <<ESCAPE_CHAR>> \o to_string(listing.players.max)

Post14(listing) ==
    <<ESCAPE_CHAR, 49>> \o Nul \o to_string(listing.version.value) \o Nul
        \o listing.version.name \o Nul \o to_legacy_string(listing.motd)
        \o Nul \o to_string(listing.players.current) \o Nul
        \o to_string(listing.players.max)

C23_LegacyForm ==
    (step = "output" /\ input.kind = "legacy" /\ output.ok) =>
        /\ output.id = 255
        /\ output.string =
              IF input.request = <<>> THEN Pre14(input.listing)
              ELSE Post14(input.listing)
        /\ Pre14(input.listing) # Post14(input.listing)

\* The listing of the server was sent in the 1.4-1.6 form:
\* "\u{a7}1\0" "761\0" "Minestodon 1.19.3\0" "\u{a7}9\u{a7}lMinestodon!\0" "0\0" "1".
C23_Witness ==
    /\ step = "output"
    /\ input.kind = "legacy"
    /\ input.listing = Server_listing
    /\ input.request = <<1>>
    /\ output.ok
    /\ Len(output.string) = 44
    /\ SubSeq(output.string, 1, 8) = <<167, 49, 0, 55, 54, 49, 0, 77>>
    /\ SubSeq(output.string, 25, 29) = <<0, 167, 57, 167, 108>>
    /\ SubSeq(output.string, 40, 44) = <<33, 0, 48, 0, 49>>

(***************************************************************************)
(* C24 (as stated).  The legacy response is the byte 0xFF, a big-endian    *)
(* u16 equal to the number of UTF-16 code units of the payload (half the   *)
(* number of bytes that follow it) and the UTF-16BE bytes of the payload;  *)
(* a payload of more than 65535 code units is an error, never a written    *)
(* length.                                                                 *)
(***************************************************************************)
Payload == legacy_response(input.request, input.listing)

CodeUnits(string) ==
    Len(string) + Cardinality({i \in 1..Len(string) : string[i] >= 65536})

C24_LengthInCodeUnits ==
    (step = "output" /\ input.kind = "legacy") =>
        /\ output.ok =>
              /\ output.id = 255
              /\ output.string = Payload
              /\ output.units = CodeUnits(Payload)
              /\ output.len = output.units
        /\ CodeUnits(Payload) > MaxChars => ~output.ok

(***************************************************************************)
(* C25.  On a server just bound, however the calls of the threads          *)
(* interleave: no id is returned twice, an id read by a call in progress   *)
(* was not returned before, when no call is in progress the N ids returned *)
(* are exactly 0..N-1, and no step makes the counter smaller.              *)
(***************************************************************************)
Fresh == entity_ids.first = 0

Returned == entity_ids.returned

InProgress(t) == threads[t].pc \in {"read", "added"}

C25_Atomic ==
    /\ [](Fresh =>
            /\ \A i, j \in 1..Len(Returned) :
                  i # j => Returned[i].id # Returned[j].id
            /\ \A t \in Threads : \A i \in 1..Len(Returned) :
                  InProgress(t) => Returned[i].id # threads[t].next
            /\ \A t, u \in Threads :
                  (t # u /\ InProgress(t) /\ InProgress(u)) =>
                      threads[t].next # threads[u].next
            /\ (\A t \in Threads : threads[t].pc = "idle") =>
                  {Returned[i].id : i \in 1..Len(Returned)}
                      = 0..(Len(Returned) - 1))
    /\ [][Fresh => next_entity_id' >= next_entity_id]_vars

\* Two threads made two calls each, their calls alternating: the first got
\* 0 and 2, the second 1 and 3.
C25_Witness ==
    /\ Fresh
    /\ \A t \in Threads : threads[t].pc = "idle"
    /\ Len(Returned) = 4
    /\ Returned[1] = [thread |-> 1, id |-> 0]
    /\ Returned[2] = [thread |-> 2, id |-> 1]
    /\ Returned[3] = [thread |-> 1, id |-> 2]
    /\ Returned[4] = [thread |-> 2, id |-> 3]
    /\ next_entity_id = 4

(***************************************************************************)
(* C26 (as stated).  A call that finds i32::MAX in the counter returns     *)
(* 2147483647 and leaves -2147483648 in the counter; no call panics and    *)
(* the lock is never poisoned.                                             *)
(***************************************************************************)
C26_WrapAtMax ==
    /\ ~lock.poisoned
    /\ \A t \in Threads :
          /\ threads[t].pc # "panicked"
          /\ (threads[t].pc = "added" /\ threads[t].next = MaxI32) =>
                next_entity_id = MinI32

(***************************************************************************)
(* C27 (with the state of the lock).  init() on a registry that holds None *)
(* and whose lock is not poisoned leaves Some(map) with what the init      *)
(* function registered, having run the init function once; the init        *)
(* function never runs twice.  init() on an initialised registry panics    *)
(* and leaves the entries as they were.  register() and serialisation on a *)
(* registry that holds None panic and it still holds None.  Every call on  *)
(* a poisoned lock panics and changes nothing.                             *)
(***************************************************************************)
Pairs(e) == Range(e.map)

C27_Lifecycle ==
    /\ registry.init_fn_runs <= 1
    /\ entries.some <=> registry.init_fn_runs = 1
    /\ (called.op = "init" /\ ~called.before.some /\ ~called.before.poisoned) =>
          /\ ~called.panicked
          /\ entries.some /\ ~entries.poisoned
          /\ Pairs(entries) = InitPairs
          /\ registry.init_fn_runs = 1
    /\ (called.op = "init" /\ called.before.some) =>
          /\ called.panicked
          /\ entries.some
          /\ entries.map = called.before.map
    /\ (called.op \in {"register", "serialize"} /\ ~called.before.some) =>
          /\ called.panicked
          /\ ~entries.some
    /\ (called.op # "none" /\ called.before.poisoned) =>
          /\ called.panicked
          /\ entries = called.before

\* A second init() on the biome registry panicked and left its two entries.
C27_Witness ==
    /\ called.op = "init"
    /\ called.before.some
    /\ ~called.before.poisoned
    /\ called.panicked
    /\ Len(entries.map) = 2
    /\ entries.map = called.before.map
    /\ registry.init_fn_runs = 1

\* C27 as stated: the first init() initialises the registry, whatever
\* happened before it.
C27_FirstInit ==
    (called.op = "init" /\ ~called.before.some) =>
        /\ ~called.panicked
        /\ entries.some
        /\ registry.init_fn_runs = 1

(***************************************************************************)
(* C28 (with the state of the lock).  On an initialised registry whose     *)
(* lock is not poisoned, register(key, value) with a key not present adds  *)
(* exactly that pair and keeps every other pair; with a key present it     *)
(* panics and every pair, the old value of the key included, stays.  No    *)
(* call ever removes or changes a pair.                                    *)
(***************************************************************************)
C28_AppendOnly ==
    /\ (called.op = "register" /\ called.before.some /\ ~called.before.poisoned) =>
          IF called.key \in Keys_of(called.before.map)
          THEN /\ called.panicked
               /\ Pairs(entries) = Pairs(called.before)
          ELSE /\ ~called.panicked
               /\ Pairs(entries) =
                     Pairs(called.before) \cup {<<called.key, called.value>>}
               /\ Len(entries.map) = Len(called.before.map) + 1
    /\ called.op # "none" => Pairs(called.before) \subseteq Pairs(entries)
    /\ \A i, j \in 1..Len(entries.map) :
          i # j => entries.map[i][1] # entries.map[j][1]

\* A key was registered again with another value: the call panicked and the
\* old value is still there.
C28_Witness ==
    /\ called.op = "register"
    /\ ~called.before.poisoned
    /\ called.panicked
    /\ called.value = 2
    /\ <<called.key, 1>> \in Pairs(entries)
    /\ Len(entries.map) = 2

\* C28 as stated: on an initialised registry, every register() of a key not
\* present adds the pair.
C28_AddsNewKey ==
    (called.op = "register" /\ called.before.some
        /\ called.key \notin Keys_of(called.before.map)) =>
        /\ ~called.panicked
        /\ Pairs(entries) = Pairs(called.before) \cup {<<called.key, called.value>>}

(***************************************************************************)
(* C29 (as stated).  A serialisation of a registry with n entries gives n  *)
(* entries with the ids 0..n-1, and the id of each entry is the position   *)
(* at which its key was registered: the k-th key registered has id k-1.    *)
(***************************************************************************)
C29_InsertionOrderIds ==
    (called.op = "serialize" /\ ~called.panicked) =>
        /\ Len(called.output) = Len(registry.registered)
        /\ {called.output[i].id : i \in 1..Len(called.output)}
              = 0..(Len(called.output) - 1)
        /\ \A i \in 1..Len(called.output) :
              registry.registered[called.output[i].id + 1] = called.output[i].name

(***************************************************************************)
(* C30 (as stated).  LoginStart::read decodes a packet in the layout of    *)
(* protocol 760 and one in the layout of protocol 761: the name and the    *)
(* optional UUID it gives are those the client wrote, and no byte of a     *)
(* signature is taken for the UUID.                                        *)
(***************************************************************************)
Written_uuid(in) == IF in.has_uuid THEN ClientUuid ELSE <<>>

C30_BothLayouts ==
    (step = "output" /\ input.kind = "login") =>
        output.now = LoginStart_of(input.name, Written_uuid(input))


\* The runs of the codec machine that served a whole stream.
StreamServed == step = "output" /\ input.kind = "stream"

LongName == HandshakeFrame(2) \o LoginStartOf(Continued(17, 65))
LongAddr == HandshakeOf(Continued(256, 97), 1)

\* C31: the declared string bounds are enforced on read.  A LoginStart whose
\* name is longer than 16 and a Handshake whose server_addr is longer than
\* 255 are rejected with a decode error: the tick fails, no CreatePlayer is
\* produced (no UUID, no promotion) and the state does not change, however
\* the stream is split into reads.
C31_StringBounds ==
    StreamServed =>
        \A run \in {output.whole, output.split} :
            /\ input.bytes = LongName =>
                  /\ run.last.res = "Err"
                  /\ run.state = "Login"
                  /\ run.uuid = 0
                  /\ run.connection = "Connection"
            /\ input.bytes = LongAddr =>
                  /\ run.last.res = "Err"
                  /\ run.state = "Handshake"
                  /\ run.transitions = <<>>


\* The runs of the codec machine that fed bytes to the framer.
FramerFed == step = "output" /\ input.kind = "feed"

\* C33: after any sequence of input bytes a PartialPacket awaiting its body
\* holds at most as many bytes as the declared length, for every declared
\* length >= 0 (0 included); it is Full exactly when the bytes accumulated
\* are as many as declared, so no byte of the next frame is appended to the
\* body.
C33_BodyWithinLength ==
    FramerFed =>
        \A i \in 1..Len(output.trace) :
            /\ output.trace[i].tag = "AwaitingBody" =>
                  Len(output.trace[i].body) <= output.trace[i].len
            /\ output.trace[i].tag = "Full" =>
                  /\ i > 1
                  /\ output.trace[i - 1].tag = "AwaitingBody"
                  /\ Len(output.trace[i].body) = output.trace[i - 1].len


\* The bytes fed start with a whole length prefix that decodes to a negative
\* VarInt; PrefixLen is the number of bytes of the prefix.
NegativePrefix ==
    /\ FramerFed
    /\ read_var(input.bytes).ok
    /\ read_var(input.bytes).val < 0

PrefixLen == Len(input.bytes) - Len(read_var(input.bytes).rest)

\* C40: a frame whose length prefix decodes to a negative VarInt is
\* rejected.  PartialPacket::next returns an error on the byte that
\* completes the prefix (it is AwaitingLen up to that byte), no byte of a
\* body is accumulated or dispatched, and the tick fails.
C40_NegativeLength ==
    NegativePrefix =>
        /\ Len(output.trace) = PrefixLen
        /\ output.trace[PrefixLen].tag = "Err"
        /\ \A i \in 1..(PrefixLen - 1) : output.trace[i].tag = "AwaitingLen"
        /\ output.tick.res = "Err"
        /\ output.tick.err = "Frame"
        /\ output.tick.packets = <<>>
        /\ output.tick.pending = None

\* bytes follow the negative prefix, and the framer has answered
C40_Witness ==
    /\ NegativePrefix
    /\ Len(input.bytes) > PrefixLen
    /\ output.trace[Len(output.trace)].tag = "Err"


\* The first byte the connection ever received: the first byte of the first
\* read (a first read of no bytes ends the loop).
FirstByteModern ==
    /\ received # <<>>
    /\ received[1] # <<>>
    /\ received[1][1] # LEGACY_PING

LegacyWrites(log) == Len(SelectSeq(log, LAMBDA w : w.kind = "legacy"))

\* C34: definitely_modern starts false, becomes true on the first received
\* byte that is not 0xFE, and is never set back to false.  No byte is fed
\* to the PartialPacket framer while it is false (nothing pending, nothing
\* dispatched), and once it is true the legacy branch of tick is not taken
\* again: no legacy response is written.
C34_DefinitelyModern ==
    /\ [](/\ definitely_modern <=> FirstByteModern
          /\ ~definitely_modern => packet = None /\ handled = <<>>)
    /\ [][definitely_modern =>
            /\ definitely_modern'
            /\ LegacyWrites(stream') = LegacyWrites(stream)]_vars

\* a modern connection that later receives a read starting with 0xFE
C34_Witness ==
    /\ definitely_modern
    /\ \E i \in 2..Len(received) :
          received[i] # <<>> /\ received[i][1] = LEGACY_PING


\* What is compared between two splits of a stream: the packets
\* dispatched, the state transitions and the writes.
Seen(run) ==
    [packets |-> run.packets, transitions |-> run.transitions, sent |-> run.sent,
     state |-> run.state]

C36_SameLegacyFormat ==
    StreamServed /\ input.bytes[1] = LEGACY_PING =>
        output.split.sent = output.whole.sent


\* C37: in every reachable state of a User, the state after a failed
\* finish_joining included, the ConnectionOrPlayer holds a Connection,
\* directly or inside a Player, so that the unwrap of connection_mut never
\* panics: the Connection is never absent, and the worker never dies on it.
C37_ConnectionHeld ==
    /\ connection \in {"Connection", "Player"}
    /\ worker = "panicked" => connection # "Taken"


\* The packets dispatched so far that produced a CreatePlayer action: the
\* LoginStart packets decoded in Login.
CreatePlayers ==
    Len(SelectSeq(handled, LAMBDA h : h.st = "Login" /\ decode_login(h.id, h.buf).ok))

FramingErrors == {"Io", "Frame", "Envelope", "PacketId"}

PlayPackets == Len(SelectSeq(handled, LAMBDA h : h.st = "Play"))

\* C39: in Play every well-framed inbound packet, whatever its id and body,
\* is consumed and dropped.  A read of well-framed bytes in Play gives
\* DoNothing: no error, nothing sent, no Close, and state, compressed and
\* uuid as before, so the worker goes on serving the connection in Play.
C39_PlayDrops ==
    [][(/\ state = "Play"
        /\ worker = "running"
        /\ ticks' = ticks + 1
        /\ received'[Len(received')] # <<>>
        /\ last'.err \notin FramingErrors)
       => /\ last'.res = "DoNothing"
          /\ stream' = stream
          /\ state' = "Play"
          /\ compressed' = compressed
          /\ uuid' = uuid
          /\ connection' = connection
          /\ worker' = "running"]_vars

\* two packets of different frames dispatched and dropped in Play
C39_Witness ==
    /\ state = "Play"
    /\ worker = "running"
    /\ PlayPackets >= 2
    /\ last.res = "DoNothing"
    /\ \E i, j \in 1..Len(handled) :
          /\ handled[i].st = "Play" /\ handled[j].st = "Play"
          /\ handled[i].buf # handled[j].buf


\* The entity id is the argument of PlayLogin.
Masked(sent) ==
    [i \in 1..Len(sent) |->
        IF sent[i].name = "PlayLogin" THEN [sent[i] EXCEPT !.arg = <<>>] ELSE sent[i]]

\* What can be seen of a connection from outside: its state transitions,
\* the packets sent to it (the entity id apart), its state and whether its
\* worker still serves it.
Visible(c, w) ==
    [transitions |-> c.transitions, sent |-> Masked(c.stream),
     state |-> c.state, worker |-> w]

\* User u served alone, with the same reads, by the same server as it was
\* when the connections were accepted.
Alone(u) ==
    Serve(User_new([Conn EXCEPT !.next_entity_id = entity_ids.first,
                                !.lock = Unlocked]),
          users[u].received, 1, u)

\* C32: connections are independent.  Under every interleaving of two
\* connections served at once, each goes through the state transitions and
\* is sent the packets it has when served alone with the same reads, the
\* entity id of its PlayLogin apart; an error, a kick or a close on one
\* never changes the state of the other or ends its worker.
C32_Independent ==
    \A u \in DOMAIN users :
        Then(Alone(u), LAMBDA alone :
            Visible(users[u].c, users[u].worker) = Visible(alone.c, alone.worker))

====
